---- MODULE Spec2Model ----
(***************************************************************************)
(* Model of the graph retrieval layer of src/src/graph_rag.py:             *)
(* SchemaGraphBuilder, QueryGraphBuilder and the GraphRAG facade.          *)
(*                                                                         *)
(* Python strings are modelled as sequences of one-character strings, so   *)
(* that startswith / endswith / replace / lower / strip / "in" are         *)
(* computed the way the code computes them.  A networkx DiGraph is         *)
(* modelled as a record                                                    *)
(*    nodes : the node keys in insertion order                             *)
(*    nattr : node key -> attribute record                                 *)
(*    adj   : node key -> successor keys in insertion order                *)
(*    eattr : <<u, v>> -> attribute record of the edge u -> v              *)
(* with at most one edge per ordered pair of nodes, as in DiGraph.         *)
(***************************************************************************)
EXTENDS Integers, Sequences, FiniteSets, TLC

VARIABLES
    db,            \* the external database: sequence of [name, columns]
    schema_graph,  \* SchemaGraphBuilder.graph
    query_graph,   \* QueryGraphBuilder.graph
    now,           \* logical clock behind datetime.now()
    file,          \* content of the snapshot file
    ret,           \* what the last call returned or raised
    history,       \* bookkeeping: which queries were added, and after which
    snapshot,      \* bookkeeping: the graphs save_graph last wrote to the file
    singleton,     \* _graph_rag_instance, the GraphRAG objects made, and the
                   \* threads inside get_graph_rag
    limiter,       \* rate_limiter: the RateLimiter object and the wall clock
    visitors,      \* the visitor log file
    pool,          \* run_with_timeout: the caller, the executor's worker
                   \* thread and the time since the submit
    writers,       \* threads inside QueryGraphBuilder.add_query
    session,       \* st.session_state's agents and what they were invoked with
    twin           \* a second query graph: the same add_query calls made with
                   \* other entities and tables arguments

graphs == <<db, schema_graph, query_graph, now, file, history, snapshot>>
extra == <<pool, writers, session, twin>>
others == <<singleton, limiter, visitors, extra>>
state == <<db, schema_graph, query_graph, now, file, history, snapshot,
           singleton, limiter, visitors, pool, writers, session, twin>>
vars == <<db, schema_graph, query_graph, now, file, history, snapshot,
          singleton, limiter, visitors, pool, writers, session, twin, ret>>

---------------------------------------------------------------------------
(* Bounds of the model                                                     *)

MaxHops == 2
MaxTables == 2
MaxAdds == 3
MaxTopK == 1
MaxStored == 2
MaxCalls == 3
MaxVisits == 4
MaxRequests == 2
MaxChecks == 3
MaxTicks == 3

---------------------------------------------------------------------------
(* Python str operations on sequences of characters                        *)

UpperLetters == <<"A","B","C","D","E","F","G","H","I","J","K","L","M",
                  "N","O","P","Q","R","S","T","U","V","W","X","Y","Z">>
LowerLetters == <<"a","b","c","d","e","f","g","h","i","j","k","l","m",
                  "n","o","p","q","r","s","t","u","v","w","x","y","z">>

LowerChar(c) ==
    IF \E i \in DOMAIN UpperLetters : UpperLetters[i] = c
    THEN LowerLetters[CHOOSE i \in DOMAIN UpperLetters : UpperLetters[i] = c]
    ELSE c

UpperChar(c) ==
    IF \E i \in DOMAIN LowerLetters : LowerLetters[i] = c
    THEN UpperLetters[CHOOSE i \in DOMAIN LowerLetters : LowerLetters[i] = c]
    ELSE c

Lower(s) == [i \in DOMAIN s |-> LowerChar(s[i])]
Upper(s) == [i \in DOMAIN s |-> UpperChar(s[i])]

StartsWith(s, p) == Len(s) >= Len(p) /\ SubSeq(s, 1, Len(p)) = p
EndsWith(s, p) == Len(s) >= Len(p) /\ SubSeq(s, Len(s) - Len(p) + 1, Len(s)) = p
Contains(s, sub) ==
    \E i \in 1..(Len(s) - Len(sub) + 1) : SubSeq(s, i, i + Len(sub) - 1) = sub

\* str.replace(old, new): leftmost, non-overlapping occurrences
RECURSIVE Replace(_, _, _)
Replace(s, old, new) ==
    IF Len(s) < Len(old) THEN s
    ELSE IF SubSeq(s, 1, Len(old)) = old
         THEN new \o Replace(SubSeq(s, Len(old) + 1, Len(s)), old, new)
         ELSE <<s[1]>> \o Replace(Tail(s), old, new)

IsSpace(c) == c \in {" ", "\t", "\n"}

RECURSIVE LStrip(_)
LStrip(s) == IF s # <<>> /\ IsSpace(s[1]) THEN LStrip(Tail(s)) ELSE s
RECURSIVE RStrip(_)
RStrip(s) ==
    IF s # <<>> /\ IsSpace(s[Len(s)]) THEN RStrip(SubSeq(s, 1, Len(s) - 1)) ELSE s
Strip(s) == RStrip(LStrip(s))

\* ' '.join(s.split()): whitespace runs collapsed to one blank, ends trimmed
RECURSIVE CollapseInner(_)
CollapseInner(s) ==
    IF s = <<>> THEN <<>>
    ELSE IF IsSpace(s[1])
         THEN <<" ">> \o CollapseInner(LStrip(s))
         ELSE <<s[1]>> \o CollapseInner(Tail(s))
JoinSplit(s) == CollapseInner(Strip(s))

Range(s) == {s[i] : i \in DOMAIN s}

---------------------------------------------------------------------------
(* networkx.DiGraph                                                        *)

NoAttr == <<>>

EmptyGraph == [nodes |-> <<>>, nattr |-> <<>>, adj |-> <<>>, eattr |-> <<>>]

HasNode(G, n) == n \in Range(G.nodes)
HasEdge(G, u, v) == <<u, v>> \in DOMAIN G.eattr

\* dict.update: keys of new overwrite, other keys of old are kept
Merge(old, new) ==
    [k \in (DOMAIN old) \cup (DOMAIN new) |->
        IF k \in DOMAIN new THEN new[k] ELSE old[k]]

\* DiGraph.add_node(n, **attrs)
AddNode(G, n, attrs) ==
    IF HasNode(G, n)
    THEN [G EXCEPT !.nattr = [m \in DOMAIN G.nattr |->
                                 IF m = n THEN Merge(G.nattr[m], attrs)
                                 ELSE G.nattr[m]]]
    ELSE [nodes |-> Append(G.nodes, n),
          nattr |-> [m \in (DOMAIN G.nattr) \cup {n} |->
                        IF m = n THEN attrs ELSE G.nattr[m]],
          adj   |-> [m \in (DOMAIN G.adj) \cup {n} |->
                        IF m = n THEN <<>> ELSE G.adj[m]],
          eattr |-> G.eattr]

\* DiGraph.add_edge(u, v, **attrs): missing end points are created
AddEdge(G, u, v, attrs) ==
    LET G1 == IF HasNode(G, u) THEN G ELSE AddNode(G, u, NoAttr)
        G2 == IF HasNode(G1, v) THEN G1 ELSE AddNode(G1, v, NoAttr)
    IN  IF HasEdge(G2, u, v)
        THEN [G2 EXCEPT !.eattr = [e \in DOMAIN G2.eattr |->
                                      IF e = <<u, v>>
                                      THEN Merge(G2.eattr[e], attrs)
                                      ELSE G2.eattr[e]]]
        ELSE [G2 EXCEPT
                !.adj = [m \in DOMAIN G2.adj |->
                            IF m = u THEN Append(G2.adj[m], v) ELSE G2.adj[m]],
                !.eattr = [e \in (DOMAIN G2.eattr) \cup {<<u, v>>} |->
                              IF e = <<u, v>> THEN attrs ELSE G2.eattr[e]]]

\* G.neighbors(n) / G.successors(n), in insertion order
Neighbors(G, n) == G.adj[n]

---------------------------------------------------------------------------
(* Strings of the program and of the modelled inputs                       *)

P_table  == <<"t","a","b","l","e",":">>
P_column == <<"c","o","l","u","m","n",":">>
S_id     == <<"_","i","d">>
S_Id     == <<"I","d">>

T_user  == <<"u","s","e","r">>
T_order == <<"o","r","d","e","r">>
T_item  == <<"i","t","e","m">>
T_ghost == <<"g","h","o","s","t">>

C_id       == <<"i","d">>
C_user_id  == <<"u","s","e","r","_","i","d">>
C_UserId   == <<"U","s","e","r","I","d">>
C_order_id == <<"o","r","d","e","r","_","i","d">>

Y_int == <<"I","N","T","E","G","E","R">>

\* One entry per table the database can hold: its name and the
\* (column, type) pairs _parse_schema yields for its description.
TableDefs ==
    { [name |-> T_user,  columns |-> << <<C_id, Y_int>>, <<C_user_id, Y_int>> >>],
      [name |-> T_order, columns |-> << <<C_id, Y_int>>, <<C_user_id, Y_int>>,
                                        <<C_UserId, Y_int>> >>],
      [name |-> T_item,  columns |-> << <<C_id, Y_int>>, <<C_order_id, Y_int>> >>],
      [name |-> T_item,  columns |-> << <<C_order_id, Y_int>>, <<C_user_id, Y_int>> >>] }

\* Table names a caller may pass: those of the database and an unknown one
TableArgs == {d.name : d \in TableDefs} \cup {T_ghost}

\* The databases: every listing, in any order, of distinct tables
Databases ==
    { s \in UNION {[1..n -> TableDefs] : n \in 0..Cardinality(TableDefs)} :
        \A i, j \in DOMAIN s : i # j => s[i].name # s[j].name }

---------------------------------------------------------------------------
(* SchemaGraphBuilder                                                      *)

TableNode(t) == P_table \o t
ColumnNode(t, c) == P_column \o t \o <<".">> \o c

\* [n.replace('table:', '') for n in graph.nodes() if n.startswith('table:')]
RECURSIVE TableNamesOf(_)
TableNamesOf(nodes) ==
    IF nodes = <<>> THEN <<>>
    ELSE IF StartsWith(nodes[1], P_table)
         THEN <<Replace(nodes[1], P_table, <<>>)>> \o TableNamesOf(Tail(nodes))
         ELSE TableNamesOf(Tail(nodes))

\* the referenced-table candidate of a column name
RefTable(col_name) == Lower(Replace(Replace(col_name, S_id, <<>>), S_Id, <<>>))

LooksLikeForeignKey(col_name) == EndsWith(col_name, S_id) \/ Contains(col_name, S_Id)

RECURSIVE detect_foreign_keys(_, _, _)
detect_foreign_keys(G, table, columns) ==
    IF columns = <<>> THEN G
    ELSE LET col_name == columns[1][1]
             ref_table == RefTable(col_name)
             G1 == IF LooksLikeForeignKey(col_name)
                      /\ ref_table \in Range(TableNamesOf(G.nodes))
                   THEN AddEdge(G, TableNode(table), TableNode(ref_table),
                                [relationship |-> "references",
                                 via_column |-> col_name])
                   ELSE G
         IN  IF G1 = G1 THEN detect_foreign_keys(G1, table, Tail(columns)) ELSE G

RECURSIVE AddColumns(_, _, _)
AddColumns(G, table, columns) ==
    IF columns = <<>> THEN G
    ELSE LET col_node == ColumnNode(table, columns[1][1])
             G1 == AddNode(G, col_node,
                           [type |-> "column", name |-> columns[1][1],
                            data_type |-> columns[1][2], table |-> table])
             G2 == AddEdge(G1, TableNode(table), col_node,
                           [relationship |-> "has_column"])
         IN  IF G2 = G2 THEN AddColumns(G2, table, Tail(columns)) ELSE G

\* a table whose description cannot be fetched or parsed: the try block
\* raises before any column is added
Raises(t) == "raises" \in DOMAIN t

\* one iteration of the loop over the tables; an exception raised inside
\* the try block ends the iteration only
BuildTable(G, t) ==
    LET G1 == AddNode(G, TableNode(t.name), [type |-> "table", name |-> t.name])
    IN  IF Raises(t) THEN G1
        ELSE detect_foreign_keys(AddColumns(G1, t.name, t.columns),
                                 t.name, t.columns)

\* a deliberately wrong variant: the first exception ends the construction
RECURSIVE BuildUntilError(_, _)
BuildUntilError(G, tables) ==
    IF tables = <<>> THEN G
    ELSE LET G1 == BuildTable(G, tables[1])
         IN  IF Raises(tables[1]) THEN G1
             ELSE IF G1 = G1 THEN BuildUntilError(G1, Tail(tables)) ELSE G

RECURSIVE BuildFrom(_, _)
BuildFrom(G, tables) ==
    IF tables = <<>> THEN G
    ELSE LET G1 == BuildTable(G, tables[1])
         IN  IF G1 = G1 THEN BuildFrom(G1, Tail(tables)) ELSE G

build_schema_graph(database) == BuildFrom(EmptyGraph, database)

---------------------------------------------------------------------------
(* What a call hands back: a value, None, or a raised exception            *)

Value(v)   == [out |-> "value", val |-> v,    exc |-> ""]
None       == [out |-> "none",  val |-> <<>>, exc |-> ""]
Raise(e)   == [out |-> "raise", val |-> <<>>, exc |-> e]

Last(p) == p[Len(p)]

---------------------------------------------------------------------------
(* SchemaGraphBuilder.get_related_tables                                   *)

\* for w in adj[v]: if w not in seen: seen.add(w); nextlevel.append(w)
RECURSIVE AppendUnseen(_, _)
AppendUnseen(ws, acc) ==
    IF ws = <<>> THEN acc
    ELSE AppendUnseen(Tail(ws),
            IF ws[1] \in acc.seen THEN acc
            ELSE [seen |-> acc.seen \cup {ws[1]}, next |-> Append(acc.next, ws[1])])

RECURSIVE ExpandLevel(_, _, _)
ExpandLevel(G, thislevel, acc) ==
    IF thislevel = <<>> THEN acc
    ELSE ExpandLevel(G, Tail(thislevel), AppendUnseen(Neighbors(G, thislevel[1]), acc))

\* a deliberately wrong variant: the cutoff is tested one level late
RECURSIVE LevelsLate(_, _, _, _, _)
LevelsLate(G, nextlevel, seen, level, cutoff) ==
    IF nextlevel = <<>> \/ cutoff < level THEN <<>>
    ELSE LET acc == ExpandLevel(G, nextlevel, [seen |-> seen, next |-> <<>>])
         IN  acc.next \o LevelsLate(G, acc.next, acc.seen, level + 1, cutoff)

\* the nodes found after `level`, level by level: while nextlevel and cutoff > level
RECURSIVE Levels(_, _, _, _, _)
Levels(G, nextlevel, seen, level, cutoff) ==
    IF nextlevel = <<>> \/ ~(cutoff > level) THEN <<>>
    ELSE LET acc == ExpandLevel(G, nextlevel, [seen |-> seen, next |-> <<>>])
         IN  acc.next \o Levels(G, acc.next, acc.seen, level + 1, cutoff)

\* keys of nx.single_source_shortest_path_length(G, source, cutoff), in order
single_source_shortest_path_length(G, source, cutoff) ==
    <<source>> \o Levels(G, <<source>>, {source}, 0, cutoff)

RECURSIVE RelatedOf(_, _)
RelatedOf(found, table_node) ==
    IF found = <<>> THEN <<>>
    ELSE IF StartsWith(found[1], P_table) /\ found[1] # table_node
         THEN <<Replace(found[1], P_table, <<>>)>> \o RelatedOf(Tail(found), table_node)
         ELSE RelatedOf(Tail(found), table_node)

get_related_tables(G, table, max_hops) ==
    LET table_node == TableNode(table)
    IN  IF ~HasNode(G, table_node) THEN <<>>
        ELSE RelatedOf(single_source_shortest_path_length(G, table_node, max_hops),
                       table_node)

---------------------------------------------------------------------------
(* SchemaGraphBuilder.get_join_path                                        *)

Ends(paths) == {Last(p) : p \in paths}

\* a deliberately wrong variant: a search that keeps no visited set and does not stop at the
\* first level that reaches the target: every simple path is a result
RECURSIVE AnyPaths(_, _, _, _)
AnyPaths(G, frontier, seen, t) ==
    LET hit  == {p \in frontier : Last(p) = t}
        next == UNION {{Append(p, w) : w \in Range(Neighbors(G, Last(p))) \ Range(p)}
                       : p \in frontier \ hit}
    IN  IF next = {} THEN hit ELSE hit \cup AnyPaths(G, next, seen, t)

\* breadth-first search, level by level: the paths of the first level that
\* reaches t, each of them a shortest path; {} when t is never reached
RECURSIVE BfsPaths(_, _, _, _)
BfsPaths(G, frontier, seen, t) ==
    LET hit  == {p \in frontier : Last(p) = t}
        next == UNION {{Append(p, w) : w \in Range(Neighbors(G, Last(p))) \ seen}
                       : p \in frontier}
    IN  IF hit # {} THEN hit
        ELSE IF next = {} THEN {}
        ELSE BfsPaths(G, next, seen \cup Ends(next), t)

\* nx.shortest_path(G, source, target): the outcomes it can have.  Which of
\* several equally short paths it returns is the library's choice.
shortest_path(G, source, target) ==
    IF ~HasNode(G, source) \/ ~HasNode(G, target)
    THEN {Raise("NodeNotFound")}
    ELSE LET paths == BfsPaths(G, {<<source>>}, {source}, target)
         IN  IF paths = {} THEN {Raise("NetworkXNoPath")}
             ELSE {Value(p) : p \in paths}

\* [n.replace('table:', '') for n in path if n.startswith('table:')]
RECURSIVE PathTables(_)
PathTables(path) ==
    IF path = <<>> THEN <<>>
    ELSE IF StartsWith(path[1], P_table)
         THEN <<Replace(path[1], P_table, <<>>)>> \o PathTables(Tail(path))
         ELSE PathTables(Tail(path))

\* try: ... except nx.NetworkXNoPath: return None
get_join_path(G, table1, table2) ==
    { IF r.out = "value" THEN Value(PathTables(r.val))
      ELSE IF r.exc = "NetworkXNoPath" THEN None
      ELSE r
      : r \in shortest_path(G, TableNode(table1), TableNode(table2)) }

---------------------------------------------------------------------------
(* GraphRAG.get_join_suggestions                                           *)

\* a deliberately wrong variant: the test edge[1] == table:table2 is
\* missing, so the columns of all references of table1 are collected
RECURSIVE ViaOfEdges(_, _, _)
ViaOfEdges(G, u, targets) ==
    IF targets = <<>> THEN <<>>
    ELSE LET e == <<u, targets[1]>>
         IN  (IF StartsWith(targets[1], P_table) /\ "via_column" \in DOMAIN G.eattr[e]
              THEN <<G.eattr[e].via_column>> ELSE <<>>)
             \o ViaOfEdges(G, u, Tail(targets))

JoinColumnsOfAllEdges(G, table1, table2) ==
    IF HasNode(G, TableNode(table1))
    THEN ViaOfEdges(G, TableNode(table1), Neighbors(G, TableNode(table1)))
    ELSE <<>>

\* for edge in graph.edges(table:table1, data=True): the via_column of the
\* edge to table:table2, when it is not empty
get_join_columns(G, table1, table2) ==
    LET u == TableNode(table1)
        v == TableNode(table2)
        via == IF HasEdge(G, u, v) /\ "via_column" \in DOMAIN G.eattr[<<u, v>>]
               THEN G.eattr[<<u, v>>].via_column ELSE <<>>
    IN  IF HasNode(G, u) /\ StartsWith(v, P_table) /\ via # <<>>
        THEN <<via>> ELSE <<>>

\* the pairs (tables[i], tables[j]), i < j, in the order the loops visit them
RECURSIVE PairsFrom(_, _, _)
PairsFrom(tables, i, j) ==
    IF i > Len(tables) THEN <<>>
    ELSE IF j > Len(tables) THEN PairsFrom(tables, i + 1, i + 2)
    ELSE <<<<tables[i], tables[j]>>>> \o PairsFrom(tables, i, j + 1)

RECURSIVE SuggestFor(_, _)
SuggestFor(G, pairs) ==
    IF pairs = <<>> THEN {Value(<<>>)}
    ELSE LET table1 == pairs[1][1]
             table2 == pairs[1][2]
         IN  UNION {
               IF r.out = "raise" THEN {r}
               ELSE { IF rest.out = "raise" THEN rest
                      ELSE IF r.out = "value" /\ r.val # <<>>
                      THEN Value(<<[from |-> table1, to |-> table2, path |-> r.val,
                                    via |-> get_join_columns(G, table1, table2)]>>
                                 \o rest.val)
                      ELSE rest
                      : rest \in SuggestFor(G, Tail(pairs)) }
               : r \in get_join_path(G, table1, table2) }

get_join_suggestions(G, tables) ==
    IF Len(tables) < 2 THEN {Value(<<>>)}
    ELSE SuggestFor(G, PairsFrom(tables, 1, 2))

---------------------------------------------------------------------------
(* QueryGraphBuilder                                                       *)

P_query  == <<"q","u","e","r","y",":">>
P_sql    == <<"s","q","l",":">>
P_result == <<"r","e","s","u","l","t",":">>
P_entity == <<"e","n","t","i","t","y",":">>

\* the query texts and SQL strings callers submit
Q_state == <<"s","h","o","w"," ","r","e","v","e","n","u","e"," ","b","y"," ","s","t","a","t","e">>
Q_city  == <<"s","h","o","w"," ","r","e","v","e","n","u","e"," ","b","y"," ","c","i","t","y">>
Q_State == <<" "," ","S","h","o","w"," ","R","e","v","e","n","u","e"," ","B","y"," ","S","T","A","T","E"," ">>
Q_items == <<"o","r","d","e","r"," ","i","t","e","m","s"," ","b","y"," ","s","t","a","t","e">>
Q_many  == <<"s","t","a","t","e"," ","r","e","v","e","n","u","e"," ","m","o","n","t","h"," ","y","e","a","r">>
Q_month == <<"s","t","a","t","e"," ","r","e","v","e","n","u","e"," ","m","o","n","t","h">>
Q_events == <<"e","v","e","n","t","s"," ","b","y"," ","s","t","a","t","e">>
SQL_one == <<"s","e","l","e","c","t"," ","1">>
SQL_two == <<" ","S","e","l","e","c","t"," "," ","2">>

QueryTexts == {Q_state, Q_city, Q_State, Q_many}
Results == {"rows"}

\* hashlib.md5(s.encode()).hexdigest()[:8] of the strings that get hashed
md5_hex8(s) ==
    CASE s = Q_state -> <<"3","d","9","c","5","4","4","2">>
      [] s = Q_city  -> <<"4","5","e","9","6","8","4","3">>
      [] s = Q_items -> <<"1","5","4","5","a","2","f","e">>
      [] s = Q_many  -> <<"2","e","4","f","4","c","8","3">>
      [] s = Q_events -> <<"2","f","d","b","a","7","9","1">>
      [] s = Q_month -> <<"1","0","0","8","8","e","f","6">>
      [] s = <<"S","E","L","E","C","T"," ","1">> -> <<"b","1","6","9","8","e","5","2">>
      [] s = <<"S","E","L","E","C","T"," ","2">> -> <<"f","c","1","c","7","a","0","b">>

\* a deliberately wrong variant: the text is hashed as typed
HashRaw(query) == <<"r","a","w",":">> \o query

hash_query(query) == md5_hex8(Strip(Lower(query)))

hash_sql(sql) == md5_hex8(JoinSplit(Upper(sql)))

keywords ==
    << <<"u","s","e","r">>, <<"o","r","d","e","r">>,
       <<"p","r","o","d","u","c","t">>, <<"r","e","v","e","n","u","e">>,
       <<"s","a","l","e","s">>, <<"c","u","s","t","o","m","e","r">>,
       <<"c","a","t","e","g","o","r","y">>, <<"b","r","a","n","d">>,
       <<"s","t","a","t","e">>, <<"c","i","t","y">>,
       <<"m","o","n","t","h">>, <<"y","e","a","r">> >>

RECURSIVE KeywordsIn(_, _)
KeywordsIn(kws, text_lower) ==
    IF kws = <<>> THEN <<>>
    ELSE IF Contains(text_lower, kws[1])
         THEN <<kws[1]>> \o KeywordsIn(Tail(kws), text_lower)
         ELSE KeywordsIn(Tail(kws), text_lower)

extract_entities(text) == KeywordsIn(keywords, Lower(text))

Max(a, b) == IF a >= b THEN a ELSE b
Min(a, b) == IF a <= b THEN a ELSE b

RECURSIVE Gcd(_, _)
Gcd(a, b) == IF b = 0 THEN a ELSE Gcd(b, a % b)

\* the number n / d, d > 0, in lowest terms
Ratio(n, d) == <<n \div Gcd(n, d), d \div Gcd(n, d)>>
Greater(x, y) == x[1] * y[2] > y[1] * x[2]

\* the threshold 0.3 of _connect_similar_queries
Threshold == <<3, 10>>

\* a deliberately wrong variant: the ratio is taken over the smaller entity set
SimilarityOverMin(new_entities, existing_entities) ==
    Ratio(Cardinality(new_entities \cap existing_entities),
          Max(Min(Cardinality(new_entities), Cardinality(existing_entities)), 1))

\* len(common) / max(len(new_entities), len(existing_entities), 1)
Similarity(new_entities, existing_entities) ==
    Ratio(Cardinality(new_entities \cap existing_entities),
          Max(Max(Cardinality(new_entities), Cardinality(existing_entities)), 1))

GetAttr(attrs, key, default) == IF key \in DOMAIN attrs THEN attrs[key] ELSE default

\* a deliberately wrong variant: the similar query is linked back to the new one as well
RECURSIVE ConnectBothWays(_, _, _, _)
ConnectBothWays(G, nodes, new_query_node, new_entities) ==
    IF nodes = <<>> THEN G
    ELSE LET node == nodes[1]
             existing_entities ==
                 Range(extract_entities(GetAttr(G.nattr[node], "text", <<>>)))
             similarity == Similarity(new_entities, existing_entities)
             G1 == IF /\ StartsWith(node, P_query) /\ node # new_query_node
                      /\ new_entities \cap existing_entities # {}
                      /\ Greater(similarity, Threshold)
                   THEN AddEdge(AddEdge(G, new_query_node, node,
                                        [relationship |-> "similar_to",
                                         similarity |-> similarity]),
                                node, new_query_node,
                                [relationship |-> "similar_to",
                                 similarity |-> similarity])
                   ELSE G
         IN  IF G1 = G1
             THEN ConnectBothWays(G1, Tail(nodes), new_query_node, new_entities)
             ELSE G

\* a deliberately wrong variant: the new query node is not skipped
RECURSIVE ConnectSelfToo(_, _, _, _)
ConnectSelfToo(G, nodes, new_query_node, new_entities) ==
    IF nodes = <<>> THEN G
    ELSE LET node == nodes[1]
             existing_entities ==
                 Range(extract_entities(GetAttr(G.nattr[node], "text", <<>>)))
             similarity == Similarity(new_entities, existing_entities)
             G1 == IF /\ StartsWith(node, P_query)
                      /\ new_entities \cap existing_entities # {}
                      /\ Greater(similarity, Threshold)
                   THEN AddEdge(G, new_query_node, node,
                                [relationship |-> "similar_to",
                                 similarity |-> similarity])
                   ELSE G
         IN  IF G1 = G1
             THEN ConnectSelfToo(G1, Tail(nodes), new_query_node, new_entities)
             ELSE G

\* the loop of _connect_similar_queries over graph.nodes()
RECURSIVE ConnectTo(_, _, _, _)
ConnectTo(G, nodes, new_query_node, new_entities) ==
    IF nodes = <<>> THEN G
    ELSE LET node == nodes[1]
             existing_entities ==
                 Range(extract_entities(GetAttr(G.nattr[node], "text", <<>>)))
             similarity == Similarity(new_entities, existing_entities)
             G1 == IF /\ StartsWith(node, P_query) /\ node # new_query_node
                      /\ new_entities \cap existing_entities # {}
                      /\ Greater(similarity, Threshold)
                   THEN AddEdge(G, new_query_node, node,
                                [relationship |-> "similar_to",
                                 similarity |-> similarity])
                   ELSE G
         IN  IF G1 = G1
             THEN ConnectTo(G1, Tail(nodes), new_query_node, new_entities)
             ELSE G

connect_similar_queries(G, new_query_node, query_text) ==
    ConnectTo(G, G.nodes, new_query_node, Range(extract_entities(query_text)))

RECURSIVE AddEntities(_, _, _)
AddEntities(G, query_node, entities) ==
    IF entities = <<>> THEN G
    ELSE LET entity_node == P_entity \o entities[1]
             G1 == AddEdge(AddNode(G, entity_node,
                                   [type |-> "entity", name |-> entities[1]]),
                           query_node, entity_node, [relationship |-> "mentions"])
         IN  IF G1 = G1 THEN AddEntities(G1, query_node, Tail(entities)) ELSE G

RECURSIVE AddTables(_, _, _)
AddTables(G, query_node, tables) ==
    IF tables = <<>> THEN G
    ELSE LET table_node == P_table \o tables[1]
             G1 == AddEdge(AddNode(G, table_node,
                                   [type |-> "table", name |-> tables[1]]),
                           query_node, table_node, [relationship |-> "queries"])
         IN  IF G1 = G1 THEN AddTables(G1, query_node, Tail(tables)) ELSE G

\* a deliberately wrong variant: the entities passed by the caller, when
\* there are any, are what the query is compared by
AddQueryLinkingByArgs(G, timestamp, query_text, sql_query, result, entities, tables) ==
    LET query_hash  == hash_query(query_text)
        query_node  == P_query \o query_hash
        sql_node    == P_sql \o hash_sql(sql_query)
        result_node == P_result \o query_hash
        G1 == AddNode(G, query_node,
                      [type |-> "query", text |-> query_text, sql |-> sql_query,
                       timestamp |-> timestamp])
        G2 == AddEdge(AddNode(G1, sql_node, [type |-> "sql", query |-> sql_query]),
                      query_node, sql_node, [relationship |-> "generates"])
        G3 == AddEdge(AddNode(G2, result_node, [type |-> "result", data |-> result]),
                      sql_node, result_node, [relationship |-> "returns"])
        G4 == AddEntities(G3, query_node, entities)
        G5 == AddTables(G4, query_node, tables)
    IN  ConnectTo(G5, G5.nodes, query_node,
                  IF entities = <<>> THEN Range(extract_entities(query_text))
                  ELSE Range(entities))

\* QueryGraphBuilder.add_query; timestamp is the reading of the clock.
\* entities / tables: <<>> stands for None as well as for the empty list.
add_query(G, timestamp, query_text, sql_query, result, entities, tables) ==
    LET query_hash  == hash_query(query_text)
        query_node  == P_query \o query_hash
        sql_node    == P_sql \o hash_sql(sql_query)
        result_node == P_result \o query_hash
        G1 == AddNode(G, query_node,
                      [type |-> "query", text |-> query_text, sql |-> sql_query,
                       timestamp |-> timestamp])
        G2 == AddEdge(AddNode(G1, sql_node, [type |-> "sql", query |-> sql_query]),
                      query_node, sql_node, [relationship |-> "generates"])
        G3 == AddEdge(AddNode(G2, result_node, [type |-> "result", data |-> result]),
                      sql_node, result_node, [relationship |-> "returns"])
        G4 == AddEntities(G3, query_node, entities)
        G5 == AddTables(G4, query_node, tables)
    IN  connect_similar_queries(G5, query_node, query_text)

---------------------------------------------------------------------------
(* QueryGraphBuilder.find_similar_queries                                  *)

RECURSIVE SimilarOf(_, _, _)
SimilarOf(G, query_node, neighbors) ==
    IF neighbors = <<>> THEN <<>>
    ELSE IF StartsWith(neighbors[1], P_query)
         THEN <<[query |-> G.nattr[neighbors[1]].text,
                 sql |-> GetAttr(G.nattr[neighbors[1]], "sql", <<>>),
                 similarity |-> GetAttr(G.eattr[<<query_node, neighbors[1]>>],
                                        "similarity", <<0, 1>>)]>>
              \o SimilarOf(G, query_node, Tail(neighbors))
         ELSE SimilarOf(G, query_node, Tail(neighbors))

\* list.sort(key=similarity, reverse=True): stable, largest first
RECURSIVE InsertDesc(_, _)
InsertDesc(sorted, x) ==
    IF sorted = <<>> THEN <<x>>
    ELSE IF Greater(x.similarity, sorted[1].similarity)
         THEN <<x>> \o sorted
         ELSE <<sorted[1]>> \o InsertDesc(Tail(sorted), x)

\* a deliberately wrong variant: the list is left in neighbour order
SortKept(sorted, rest) == sorted \o rest

RECURSIVE SortDesc(_, _)
SortDesc(sorted, rest) ==
    IF rest = <<>> THEN sorted ELSE SortDesc(InsertDesc(sorted, rest[1]), Tail(rest))

\* similar[:top_k]
Slice(similar, top_k) ==
    IF top_k >= 0 THEN SubSeq(similar, 1, Min(top_k, Len(similar)))
    ELSE SubSeq(similar, 1, Max(Len(similar) + top_k, 0))

\* a deliberately wrong variant: a text that has no node of its own is
\* compared with the stored queries on the spot
RECURSIVE SharingEntities(_, _, _)
SharingEntities(G, nodes, entities) ==
    IF nodes = <<>> THEN <<>>
    ELSE LET existing == Range(extract_entities(GetAttr(G.nattr[nodes[1]], "text", <<>>)))
         IN  (IF StartsWith(nodes[1], P_query) /\ entities \cap existing # {}
              THEN <<[query |-> G.nattr[nodes[1]].text,
                      sql |-> GetAttr(G.nattr[nodes[1]], "sql", <<>>),
                      similarity |-> Similarity(entities, existing)]>>
              ELSE <<>>)
             \o SharingEntities(G, Tail(nodes), entities)

FindSimilarOnTheSpot(G, query_text, top_k) ==
    LET query_node == P_query \o hash_query(query_text)
    IN  IF ~HasNode(G, query_node)
        THEN Slice(SortDesc(<<>>, SharingEntities(G, G.nodes,
                                                  Range(extract_entities(query_text)))),
                   top_k)
        ELSE Slice(SortDesc(<<>>, SimilarOf(G, query_node, Neighbors(G, query_node))),
                   top_k)

find_similar_queries(G, query_text, top_k) ==
    LET query_node == P_query \o hash_query(query_text)
    IN  IF ~HasNode(G, query_node) THEN <<>>
        ELSE Slice(SortDesc(<<>>, SimilarOf(G, query_node, Neighbors(G, query_node))),
                   top_k)

---------------------------------------------------------------------------
(* GraphRAG: table detection and add_query_result                          *)

known_tables ==
    << <<"u","s","e","r","s">>, <<"o","r","d","e","r","s">>,
       <<"p","r","o","d","u","c","t","s">>,
       <<"o","r","d","e","r","_","i","t","e","m","s">>,
       <<"i","n","v","e","n","t","o","r","y","_","i","t","e","m","s">>,
       <<"e","v","e","n","t","s">>,
       <<"d","i","s","t","r","i","b","u","t","i","o","n","_","c","e","n","t","e","r","s">> >>

RECURSIVE TablesIn(_, _)
TablesIn(tables, query_lower) ==
    IF tables = <<>> THEN <<>>
    ELSE IF \/ Contains(query_lower, tables[1])
            \/ Contains(query_lower, Replace(tables[1], <<"_">>, <<" ">>))
         THEN <<tables[1]>> \o TablesIn(Tail(tables), query_lower)
         ELSE TablesIn(Tail(tables), query_lower)

extract_tables_from_query(query_text) == TablesIn(known_tables, Lower(query_text))

\* entities = <<>> stands for None and for the empty list: "if not entities"
add_query_result(G, timestamp, query_text, sql_query, result, entities) ==
    add_query(G, timestamp, query_text, sql_query, result,
              IF entities = <<>> THEN extract_entities(query_text) ELSE entities,
              extract_tables_from_query(query_text))

---------------------------------------------------------------------------
(* GraphRAG.save_graph / load_graph: the node-link document                *)

Without(attrs, keys) == [k \in (DOMAIN attrs) \ keys |-> attrs[k]]

RECURSIVE LinksOf(_, _, _)
LinksOf(G, u, successors) ==
    IF successors = <<>> THEN <<>>
    ELSE <<Merge(G.eattr[<<u, successors[1]>>],
                 [source |-> u, target |-> successors[1]])>>
         \o LinksOf(G, u, Tail(successors))

RECURSIVE LinksFrom(_, _)
LinksFrom(G, nodes) ==
    IF nodes = <<>> THEN <<>>
    ELSE LinksOf(G, nodes[1], G.adj[nodes[1]]) \o LinksFrom(G, Tail(nodes))

\* nx.node_link_data(G): a flat node list and a flat edge list
node_link_data(G) ==
    [directed   |-> TRUE,
     multigraph |-> FALSE,
     nodes      |-> [i \in DOMAIN G.nodes |->
                        Merge(G.nattr[G.nodes[i]], [id |-> G.nodes[i]])],
     links      |-> LinksFrom(G, G.nodes)]

RECURSIVE LoadNodes(_, _)
LoadNodes(G, nodes) ==
    IF nodes = <<>> THEN G
    ELSE LET G1 == AddNode(G, nodes[1].id, Without(nodes[1], {"id"}))
         IN  IF G1 = G1 THEN LoadNodes(G1, Tail(nodes)) ELSE G

\* a deliberately wrong variant: the attributes of the edges are not read back
RECURSIVE LoadLinksBare(_, _)
LoadLinksBare(G, links) ==
    IF links = <<>> THEN G
    ELSE LET G1 == AddEdge(G, links[1].source, links[1].target, NoAttr)
         IN  IF G1 = G1 THEN LoadLinksBare(G1, Tail(links)) ELSE G

RECURSIVE LoadLinks(_, _)
LoadLinks(G, links) ==
    IF links = <<>> THEN G
    ELSE LET G1 == AddEdge(G, links[1].source, links[1].target,
                           Without(links[1], {"source", "target"}))
         IN  IF G1 = G1 THEN LoadLinks(G1, Tail(links)) ELSE G

\* nx.node_link_graph(data)
node_link_graph(data) == LoadLinks(LoadNodes(EmptyGraph, data.nodes), data.links)

\* the snapshot file: absent, not JSON, or a JSON object with some of the
\* sections 'schema' and 'queries'
AbsentFile    == [kind |-> "absent", doc |-> <<>>]
MalformedFile == [kind |-> "malformed", doc |-> <<>>]
JsonFile(doc) == [kind |-> "json", doc |-> doc]

\* json.dump of {'schema': ..., 'queries': ...}
save_graph(schema, queries) ==
    JsonFile([schema |-> node_link_data(schema), queries |-> node_link_data(queries)])

\* load_graph: the graphs afterwards and what the call hands back.  The
\* schema graph is assigned before the 'queries' section is looked up.
load_graph(schema, queries, f) ==
    IF f.kind = "absent"
    THEN [schema |-> schema, queries |-> queries, r |-> Raise("FileNotFoundError")]
    ELSE IF f.kind = "malformed"
    THEN [schema |-> schema, queries |-> queries, r |-> Raise("JSONDecodeError")]
    ELSE IF "schema" \notin DOMAIN f.doc
    THEN [schema |-> schema, queries |-> queries, r |-> Raise("KeyError")]
    ELSE IF "queries" \notin DOMAIN f.doc
    THEN [schema |-> node_link_graph(f.doc.schema), queries |-> queries,
          r |-> Raise("KeyError")]
    ELSE [schema |-> node_link_graph(f.doc.schema),
          queries |-> node_link_graph(f.doc.queries), r |-> None]

---------------------------------------------------------------------------
(* State after construction, and the calls on the schema graph             *)

\* _graph_rag_instance = None (0), no GraphRAG object made, and one entry
\* per thread that will call get_graph_rag
SingletonInit(threads) ==
    [ instance |-> 0,
      heap  |-> <<>>,
      pc    |-> [t \in threads |-> "idle"],
      arg   |-> [t \in threads |-> "none"],
      made  |-> [t \in threads |-> 0],
      got   |-> [t \in threads |-> <<>>],
      calls |-> <<>> ]

\* rate_limiter = RateLimiter() at time 0; allowed is bookkeeping: every
\* allowed call as <<user key, time>>
LimiterInit(max_requests) ==
    [ requests |-> <<>>, last_cleanup |-> 0, clock |-> 0, calls |-> 0, ticks |-> 0,
      max_requests |-> max_requests, allowed |-> <<>> ]

\* no visitor log file; tracked is bookkeeping: the ids passed to
\* track_visitor so far
VisitorsInit ==
    [ log |-> [kind |-> "absent"], calls |-> 0, tracked |-> {} ]

\* no call of run_with_timeout yet; log is bookkeeping: what each call
\* handed to its caller
PoolInit ==
    [ pc |-> "idle", worker |-> "none", func |-> "none", elapsed |-> 0,
      pending |-> "none", log |-> <<>> ]

\* one entry per thread that will call add_query
WritersInit(threads) ==
    [ pc   |-> [t \in threads |-> "idle"],
      call |-> [t \in threads |-> <<>>] ]

\* st.session_state with or without its two agents; invoked is
\* bookkeeping: the agent calls of the last request as <<call, argument>>
SessionInit(sql, python) ==
    [ sql_agent |-> sql, python_agent |-> python, calls |-> 0,
      invoked |-> <<>>, blocked |-> FALSE ]

InitExtra ==
    /\ pool = PoolInit
    /\ writers = WritersInit({})
    /\ session = SessionInit(FALSE, FALSE)
    /\ twin = EmptyGraph

InitOthers ==
    /\ singleton = SingletonInit({})
    /\ limiter = LimiterInit(1)
    /\ visitors = VisitorsInit
    /\ InitExtra

InitGraphs(databases, files) ==
    /\ db \in databases
    /\ schema_graph = build_schema_graph(db)
    /\ query_graph = EmptyGraph
    /\ now = 0
    /\ file \in files
    /\ snapshot = [written |-> FALSE, schema |-> EmptyGraph, queries |-> EmptyGraph]
    /\ history = [texts |-> {}, added |-> {}, after |-> {}]
    /\ ret = [op |-> "init", args |-> <<>>, out |-> "none", val |-> <<>>, exc |-> ""]

InitOver(databases, files) == InitGraphs(databases, files) /\ InitOthers

Returned(op, args, r) ==
    ret' = [op |-> op, args |-> args, out |-> r.out, val |-> r.val, exc |-> r.exc]

\* argument lists of get_join_suggestions
TableLists == UNION {[1..n -> TableArgs] : n \in 0..MaxTables}

GetJoinPath ==
    \E table1, table2 \in TableArgs :
      \E r \in get_join_path(schema_graph, table1, table2) :
        /\ Returned("get_join_path", <<table1, table2>>, r)
        /\ UNCHANGED state

GetRelatedTables ==
    \E table \in TableArgs, max_hops \in 0..MaxHops :
        /\ Returned("get_related_tables", <<table, max_hops>>,
                    Value(get_related_tables(schema_graph, table, max_hops)))
        /\ UNCHANGED state

GetJoinSuggestions ==
    \E tables \in TableLists :
      \E r \in get_join_suggestions(schema_graph, tables) :
        /\ Returned("get_join_suggestions", <<tables>>, r)
        /\ UNCHANGED state

\* entities and tables a direct caller of add_query passes along
E_brand  == <<"b","r","a","n","d">>
K_events == <<"e","v","e","n","t","s">>
AddArgs == { [sql_query |-> SQL_one, entities |-> <<>>, tables |-> <<>>],
             [sql_query |-> SQL_two, entities |-> <<E_brand>>,
              tables |-> <<K_events>>] }

Remember(query_text, query_node) ==
    history' = [texts |-> history.texts \cup {query_text},
                added |-> history.added \cup {query_node},
                after |-> history.after
                            \cup {<<query_node, x>> : x \in history.added \ {query_node}}]

AddQuery ==
    \E query_text \in QueryTexts, more \in AddArgs, result \in Results :
        /\ now < MaxAdds
        /\ query_graph' = add_query(query_graph, now, query_text, more.sql_query,
                                    result, more.entities, more.tables)
        /\ now' = now + 1
        /\ Remember(query_text, P_query \o hash_query(query_text))
        /\ Returned("add_query", <<query_text, more.sql_query>>,
                    Value(hash_query(query_text)))
        /\ UNCHANGED <<db, schema_graph, file, snapshot, others>>

FindSimilarQueries ==
    \E query_text \in QueryTexts, top_k \in 0..MaxTopK :
        /\ Returned("find_similar_queries", <<query_text, top_k>>,
                    Value(find_similar_queries(query_graph, query_text, top_k)))
        /\ UNCHANGED state

\* entities a caller of add_query_result passes: None, or its own list
EntityArgs == {<<>>, <<E_brand>>}
FacadeTexts == {Q_state, Q_city, Q_items}

AddQueryResult ==
    \E query_text \in FacadeTexts, entities \in EntityArgs, result \in Results :
        /\ now < MaxStored
        /\ query_graph' = add_query_result(query_graph, now, query_text, SQL_one,
                                           result, entities)
        /\ now' = now + 1
        /\ Remember(query_text, P_query \o hash_query(query_text))
        /\ Returned("add_query_result", <<query_text, SQL_one>>,
                    Value(hash_query(query_text)))
        /\ UNCHANGED <<db, schema_graph, file, snapshot, others>>

SaveGraph ==
    /\ file' = save_graph(schema_graph, query_graph)
    /\ snapshot' = [written |-> TRUE, schema |-> schema_graph, queries |-> query_graph]
    /\ Returned("save_graph", <<>>, None)
    /\ UNCHANGED <<db, schema_graph, query_graph, now, history, others>>

LoadGraph ==
    LET loaded == load_graph(schema_graph, query_graph, file)
    IN  /\ schema_graph' = loaded.schema
        /\ query_graph' = loaded.queries
        /\ Returned("load_graph", <<>>, loaded.r)
        /\ UNCHANGED <<db, now, file, history, snapshot, others>>

InitSchema == InitOver(Databases, {AbsentFile})
NextSchema == GetJoinPath \/ GetRelatedTables \/ GetJoinSuggestions
SpecSchema == InitSchema /\ [][NextSchema]_vars

\* the query graph builder alone, under one fixed database
ChainDatabase ==
    << [name |-> T_user,  columns |-> << <<C_id, Y_int>> >>],
       [name |-> T_order, columns |-> << <<C_id, Y_int>>, <<C_user_id, Y_int>> >>] >>

InitQuery == InitOver({ChainDatabase}, {AbsentFile})
NextQuery == AddQuery \/ FindSimilarQueries
SpecQuery == InitQuery /\ [][NextQuery]_vars

\* the facade with its snapshot file.  The file a process finds at start
\* may be missing, damaged, or written by another run over another database.
OtherDatabase == << [name |-> T_item, columns |-> << <<C_id, Y_int>> >>] >>

InitialFiles ==
    { AbsentFile, MalformedFile,
      JsonFile(<<>>),
      JsonFile([schema |-> node_link_data(build_schema_graph(OtherDatabase))]),
      JsonFile([queries |-> node_link_data(EmptyGraph)]) }

Init == InitOver({ChainDatabase}, InitialFiles)
Next == AddQueryResult \/ SaveGraph \/ LoadGraph
Spec == Init /\ [][Next]_vars

---------------------------------------------------------------------------
(* Properties of the schema graph operations.  Paths are stated here by    *)
(* enumerating the walks of the graph, not by the search that finds them.  *)

KnownTables == {t \in TableArgs : HasNode(schema_graph, TableNode(t))}

RefEdge(a, b) == HasEdge(schema_graph, TableNode(a), TableNode(b))

IsWalk(p) == \A i \in 1..(Len(p) - 1) : RefEdge(p[i], p[i + 1])

\* the walks from a to b over known tables with at most maxEdges edges
WalksFromTo(a, b, maxEdges) ==
    { p \in UNION {[1..n -> KnownTables] : n \in 1..(maxEdges + 1)} :
        p[1] = a /\ p[Len(p)] = b /\ IsWalk(p) }

\* a shortest walk never repeats a table, so these decide existence and minimum
SimpleWalks(a, b) == WalksFromTo(a, b, Cardinality(KnownTables) - 1)

\* C1: when a directed path from a to b exists, get_join_path(a, b) returns
\* a list of tables that starts with a, ends with b, follows edges of the
\* graph, and has the fewest edges of all directed paths from a to b.
C1_JoinPathShortest ==
    ret.op = "get_join_path" =>
        LET a == ret.args[1]
            b == ret.args[2]
        IN  (a \in KnownTables /\ b \in KnownTables /\ SimpleWalks(a, b) # {}) =>
                /\ ret.out = "value"
                /\ ret.val \in SimpleWalks(a, b)
                /\ \A w \in SimpleWalks(a, b) : Len(ret.val) <= Len(w)

\* a join path over other tables was returned, and a longer path joins the
\* same two tables
C1_Witness ==
    /\ ret.op = "get_join_path"
    /\ ret.out = "value"
    /\ Len(ret.val) >= 2
    /\ \E w \in SimpleWalks(ret.args[1], ret.args[2]) : Len(w) > Len(ret.val)

\* C2: get_join_path(t1, t2) returns None and does not raise, both when no
\* directed path from t1 to t2 exists and when t1 or t2 is not a table of
\* the schema graph.
C2_NoPathReturnsNone ==
    ret.op = "get_join_path" =>
        LET a == ret.args[1]
            b == ret.args[2]
        IN  (a \notin KnownTables \/ b \notin KnownTables \/ SimpleWalks(a, b) = {}) =>
                ret.out = "none"

Connected(a, b) == SimpleWalks(a, b) # {} \/ SimpleWalks(b, a) # {}

\* C8: get_join_suggestions returns an empty list for fewer than 2 tables,
\* and otherwise exactly one record for every unordered pair of the given
\* tables that a join path connects and none for the other pairs, whatever
\* the order in which the tables are listed.  Stated for lists of distinct
\* tables of the schema graph.
C8_SuggestionsPerUnorderedPair ==
    ret.op = "get_join_suggestions" =>
        LET tables == ret.args[1]
        IN  (/\ Range(tables) \subseteq KnownTables
             /\ \A i, j \in DOMAIN tables : i # j => tables[i] # tables[j]) =>
                /\ ret.out = "value"
                /\ Len(tables) < 2 => ret.val = <<>>
                /\ \A i, j \in DOMAIN tables : i < j =>
                     LET recs == {k \in DOMAIN ret.val :
                                    {ret.val[k].from, ret.val[k].to}
                                        = {tables[i], tables[j]}}
                     IN  Cardinality(recs) =
                            (IF Connected(tables[i], tables[j]) THEN 1 ELSE 0)

\* C9: get_related_tables(t, max_hops) returns exactly the tables other
\* than t reachable from t by at most max_hops directed edges; it returns
\* an empty list when t is not in the schema graph and when t has no edge
\* to or from any other table.
C9_RelatedTables ==
    ret.op = "get_related_tables" =>
        LET t == ret.args[1]
            h == ret.args[2]
        IN  /\ ret.out = "value"
            /\ \A i, j \in DOMAIN ret.val : i # j => ret.val[i] # ret.val[j]
            /\ Range(ret.val) =
                 (IF t \in KnownTables
                  THEN {x \in KnownTables \ {t} : WalksFromTo(t, x, h) # {}}
                  ELSE {})
            /\ t \notin KnownTables => ret.val = <<>>
            /\ (\A x \in KnownTables \ {t} : ~RefEdge(t, x) /\ ~RefEdge(x, t))
                  => ret.val = <<>>

\* a call that returned some table and left out one that lies further away
C9_Witness ==
    /\ ret.op = "get_related_tables"
    /\ ret.val # <<>>
    /\ \E x \in KnownTables \ ({ret.args[1]} \cup Range(ret.val)) :
          SimpleWalks(ret.args[1], x) # {}

\* the name a foreign-key column points at: the column name without its
\* '_id' suffix, or without its 'Id' substring
Candidate(c) ==
    IF EndsWith(c, S_id) THEN SubSeq(c, 1, Len(c) - Len(S_id))
    ELSE Replace(c, S_Id, <<>>)

NamesTable(c, name) ==
    /\ EndsWith(c, S_id) \/ Contains(c, S_Id)
    /\ Lower(Candidate(c)) = Lower(name)

\* C10: for every table T and column c of T whose name ends with '_id' or
\* contains 'Id' and, stripped, equals case-insensitively the name of a
\* table of the database, the finished schema graph has a references edge
\* from T to that table carrying via_column = c; and there is no other
\* references edge.
C10_ForeignKeysInferred ==
    /\ \A i, j \in DOMAIN db : \A k \in DOMAIN db[i].columns :
          NamesTable(db[i].columns[k][1], db[j].name) =>
              /\ RefEdge(db[i].name, db[j].name)
              /\ schema_graph.eattr[<<TableNode(db[i].name), TableNode(db[j].name)>>]
                    = [relationship |-> "references",
                       via_column |-> db[i].columns[k][1]]
    /\ \A a, b \in KnownTables :
          RefEdge(a, b) =>
              \E i, j \in DOMAIN db : \E k \in DOMAIN db[i].columns :
                  /\ db[i].name = a /\ db[j].name = b
                  /\ NamesTable(db[i].columns[k][1], b)

---------------------------------------------------------------------------
(* Properties of the query graph.  history records the texts submitted,    *)
(* the query nodes added, and the pairs <<q, x>> such that q was added at  *)
(* a moment when x had already been added.                                 *)

QueryNodes == {n \in Range(query_graph.nodes) : StartsWith(n, P_query)}

Normalized(text) == Strip(Lower(text))

NodeOf(text) == P_query \o hash_query(text)

\* C3: the query graph holds exactly one query node for each distinct
\* normalized (lower-cased, trimmed) query text; adding a case/whitespace
\* variant of a stored text with different SQL overwrites the attributes
\* of the existing query node and creates no second one.
C3_OneNodePerNormalizedText ==
    /\ \A i, j \in DOMAIN query_graph.nodes :
          i # j => query_graph.nodes[i] # query_graph.nodes[j]
    /\ Cardinality(QueryNodes) = Cardinality({Normalized(t) : t \in history.texts})
    /\ \A t \in history.texts :
          Cardinality({q \in QueryNodes :
                         Normalized(query_graph.nattr[q].text) = Normalized(t)}) = 1
    /\ ret.op = "add_query" =>
          \A q \in QueryNodes :
              Normalized(query_graph.nattr[q].text) = Normalized(ret.args[1]) =>
                  query_graph.nattr[q] = [type |-> "query", text |-> ret.args[1],
                                          sql |-> ret.args[2], timestamp |-> now - 1]

\* the variant of a stored text was added with another SQL: still one node
C3_Witness ==
    /\ ret.op = "add_query"
    /\ ret.args = <<Q_State, SQL_two>>
    /\ Q_state \in history.texts
    /\ \E q \in QueryNodes : query_graph.nattr[q].sql = SQL_two
    /\ Cardinality(QueryNodes) = 1

EntitiesOf(text) == {k \in Range(keywords) : Contains(Lower(text), k)}

Overlap(t1, t2) == Cardinality(EntitiesOf(t1) \cap EntitiesOf(t2))
Larger(t1, t2) ==
    Max(Max(Cardinality(EntitiesOf(t1)), Cardinality(EntitiesOf(t2))), 1)

\* the overlap ratio of the two texts exceeds 0.3
SimilarTexts(t1, t2) == 10 * Overlap(t1, t2) > 3 * Larger(t1, t2)

Returns(text) == \E i \in DOMAIN ret.val : Normalized(ret.val[i].query) = Normalized(text)

\* C4: similarity edges are directional.  When Q2 was added after Q1 and is
\* similar to it, find_similar_queries(Q2) returns Q1 (top_k permitting);
\* find_similar_queries on Q1's text returns Q2 only if Q1 was added again
\* after Q2.
C4_SimilarityDirectional ==
    ret.op = "find_similar_queries" =>
        LET asked == NodeOf(ret.args[1])
            top_k == ret.args[2]
        IN  /\ \A q1 \in QueryNodes :
                  (/\ <<asked, q1>> \in history.after
                   /\ SimilarTexts(ret.args[1], query_graph.nattr[q1].text)
                   /\ top_k >= Cardinality(QueryNodes) - 1)
                      => Returns(query_graph.nattr[q1].text)
            /\ \A i \in DOMAIN ret.val :
                  <<asked, NodeOf(ret.val[i].query)>> \in history.after

\* Q2 = "show revenue by city" was added after Q1 = "show revenue by state"
\* and never the other way round; asked for Q1, nothing is returned
C4_Witness ==
    /\ ret.op = "find_similar_queries"
    /\ ret.args = <<Q_state, 1>>
    /\ <<NodeOf(Q_city), NodeOf(Q_state)>> \in history.after
    /\ <<NodeOf(Q_state), NodeOf(Q_city)>> \notin history.after
    /\ HasEdge(query_graph, NodeOf(Q_city), NodeOf(Q_state))
    /\ ret.val = <<>>

\* C5: when add_query inserts query N, a similar_to edge N -> E exists for
\* another query node E exactly when |ents(N) /\ ents(E)| divided by
\* max(|ents(N)|, |ents(E)|, 1) exceeds 0.3, and the edge carries that
\* ratio; adding 'show revenue by state' and then 'show revenue by city'
\* gives an edge from the second to the first with similarity 1/2.
C5_SimilarityEdges ==
    ret.op = "add_query" =>
        LET n == NodeOf(ret.args[1])
        IN  /\ \A e \in QueryNodes \ {n} :
                  LET text == query_graph.nattr[e].text
                  IN  /\ HasEdge(query_graph, n, e) <=> SimilarTexts(ret.args[1], text)
                      /\ HasEdge(query_graph, n, e) =>
                            /\ query_graph.eattr[<<n, e>>].relationship = "similar_to"
                            /\ query_graph.eattr[<<n, e>>].similarity[1]
                                    * Larger(ret.args[1], text)
                                 = Overlap(ret.args[1], text)
                                    * query_graph.eattr[<<n, e>>].similarity[2]
            /\ ~HasEdge(query_graph, n, n)
            /\ (ret.args[1] = Q_city /\ NodeOf(Q_state) \in QueryNodes) =>
                  /\ HasEdge(query_graph, n, NodeOf(Q_state))
                  /\ query_graph.eattr[<<n, NodeOf(Q_state)>>].similarity = <<1, 2>>

\* 'show revenue by city' was added to a graph holding 'show revenue by
\* state' and a query that shares too little with it to be linked
C5_Witness ==
    /\ ret.op = "add_query"
    /\ ret.args[1] = Q_city
    /\ HasEdge(query_graph, NodeOf(Q_city), NodeOf(Q_state))
    /\ query_graph.eattr[<<NodeOf(Q_city), NodeOf(Q_state)>>].similarity = <<1, 2>>
    /\ NodeOf(Q_many) \in QueryNodes
    /\ ~HasEdge(query_graph, NodeOf(Q_city), NodeOf(Q_many))

---------------------------------------------------------------------------
(* Properties of the snapshot file                                         *)

\* C6: a load_graph that fails (file absent, malformed JSON, or a missing
\* 'schema' or 'queries' section) reports an error and leaves the schema
\* graph and the query graph exactly as they were before the call.
C6_FailedLoadLeavesGraphs ==
    [][(ret'.op = "load_graph" /\ ret'.out = "raise") =>
          (schema_graph' = schema_graph /\ query_graph' = query_graph)]_vars

\* C7: save_graph followed by load_graph yields a schema graph and a query
\* graph with the same nodes, the same edges and the same node and edge
\* attributes as the graphs that were saved.
C7_RoundTrip ==
    (ret.op = "load_graph" /\ ret.out = "none" /\ snapshot.written) =>
        /\ schema_graph = snapshot.schema
        /\ query_graph = snapshot.queries

\* a saved graph with queries and inferred references was loaded over a
\* query graph that had grown since the save
C7_Witness ==
    /\ ret.op = "load_graph"
    /\ ret.out = "none"
    /\ snapshot.written
    /\ query_graph.nodes # <<>>
    /\ \E e \in DOMAIN schema_graph.eattr :
          schema_graph.eattr[e].relationship = "references"
    /\ \E q \in history.added : ~HasNode(query_graph, q)


---------------------------------------------------------------------------
(* The three-table scenario: orders, order_items and users, listed by the  *)
(* database in any order                                                   *)

T_users       == <<"u","s","e","r","s">>
T_orders      == <<"o","r","d","e","r","s">>
T_order_items == <<"o","r","d","e","r","_","i","t","e","m","s">>

ScenarioDefs ==
    { [name |-> T_orders,      columns |-> << <<C_id, Y_int>>, <<C_user_id, Y_int>> >>],
      [name |-> T_order_items, columns |-> << <<C_id, Y_int>>, <<C_order_id, Y_int>> >>],
      [name |-> T_users,       columns |-> << <<C_id, Y_int>> >>] }

ScenarioDatabases ==
    { s \in [1..Cardinality(ScenarioDefs) -> ScenarioDefs] :
        \A i, j \in DOMAIN s : i # j => s[i] # s[j] }

ScenarioArgs == {d.name : d \in ScenarioDefs} \cup {T_ghost}

ScenarioJoinPath ==
    \E table1, table2 \in ScenarioArgs :
      \E r \in get_join_path(schema_graph, table1, table2) :
        /\ Returned("get_join_path", <<table1, table2>>, r)
        /\ UNCHANGED state

ScenarioRelatedTables ==
    \E table \in ScenarioArgs, max_hops \in 0..MaxHops :
        /\ Returned("get_related_tables", <<table, max_hops>>,
                    Value(get_related_tables(schema_graph, table, max_hops)))
        /\ UNCHANGED state

InitScenario == InitOver(ScenarioDatabases, {AbsentFile})
NextScenario == ScenarioJoinPath \/ ScenarioRelatedTables
SpecScenario == InitScenario /\ [][NextScenario]_vars

\* C11: in the graph built from orders (user_id), order_items (order_id)
\* and users, orders references users via user_id, order_items references
\* orders via order_id, and get_join_path('order_items', 'users') returns
\* ['order_items', 'orders', 'users'].
C11_ScenarioJoinPath ==
    /\ HasEdge(schema_graph, TableNode(T_orders), TableNode(T_users))
    /\ HasEdge(schema_graph, TableNode(T_order_items), TableNode(T_orders))
    /\ (ret.op = "get_join_path" /\ ret.args = <<T_order_items, T_users>>)
         => /\ ret.out = "value"
            /\ ret.val = <<T_order_items, T_orders, T_users>>

\* what the code does in the scenario: no table references another, and the
\* call returns None
C11_NoReferences ==
    /\ \A a, b \in ScenarioArgs : ~HasEdge(schema_graph, TableNode(a), TableNode(b))
    /\ (ret.op = "get_join_path" /\ ret.args = <<T_order_items, T_users>>)
         => ret.out = "none"


---------------------------------------------------------------------------
(* Ranking of similar queries: texts whose pairwise similarities differ    *)
(* (state/city 1/2, state/month 2/3, city/month 1/3)                       *)

RankedTexts == {Q_state, Q_city, Q_month}

AddRanked ==
    \E query_text \in RankedTexts, more \in AddArgs, result \in Results :
        /\ now < MaxAdds
        /\ query_graph' = add_query(query_graph, now, query_text, more.sql_query,
                                    result, more.entities, more.tables)
        /\ now' = now + 1
        /\ Remember(query_text, P_query \o hash_query(query_text))
        /\ Returned("add_query", <<query_text, more.sql_query>>,
                    Value(hash_query(query_text)))
        /\ UNCHANGED <<db, schema_graph, file, snapshot, others>>

\* texts asked for: the stored ones, one differing in case, one never added
AskedTexts == RankedTexts \cup {Q_State, Q_many}

FindRanked ==
    \E query_text \in AskedTexts, top_k \in 0..MaxTopK :
        /\ Returned("find_similar_queries", <<query_text, top_k>>,
                    Value(find_similar_queries(query_graph, query_text, top_k)))
        /\ UNCHANGED state

InitRanked == InitOver({ChainDatabase}, {AbsentFile})
NextRanked == AddRanked \/ FindRanked
SpecRanked == InitRanked /\ [][NextRanked]_vars

\* the similar_to neighbours of a query node, as entries
SimilarNeighbours(n) ==
    { [query |-> query_graph.nattr[e].text,
       sql |-> query_graph.nattr[e].sql,
       similarity |-> query_graph.eattr[<<n, e>>].similarity] :
        e \in {x \in QueryNodes : /\ HasEdge(query_graph, n, x)
                                  /\ query_graph.eattr[<<n, x>>].relationship
                                        = "similar_to"} }

---------------------------------------------------------------------------
(* Context strings: SchemaGraphBuilder.get_schema_context,                 *)
(* QueryGraphBuilder.get_query_context, GraphRAG.get_context_for_query     *)

NL == <<"\n">>

\* sep.join(parts)
RECURSIVE Join(_, _)
Join(sep, parts) ==
    IF parts = <<>> THEN <<>>
    ELSE IF Len(parts) = 1 THEN parts[1]
    ELSE parts[1] \o sep \o Join(sep, Tail(parts))

Digits == <<"0","1","2","3","4","5","6","7","8","9">>

\* str(n) of a natural number
RECURSIVE IntStr(_)
IntStr(n) == IF n < 10 THEN <<Digits[n + 1]>>
             ELSE IntStr(n \div 10) \o <<Digits[(n % 10) + 1]>>

\* f"{x:.2f}" of the float n/d: hundredths rounded to nearest; an exact
\* half arises only for eighths, which are exact in binary and go to even
Hundredths(x) ==
    LET q == (100 * x[1]) \div x[2]
        r == (100 * x[1]) % x[2]
    IN  IF 2 * r > x[2] THEN q + 1
        ELSE IF 2 * r < x[2] THEN q
        ELSE IF q % 2 = 0 THEN q ELSE q + 1

Fmt2f(x) ==
    LET h == Hundredths(x)
    IN  IntStr(h \div 100) \o <<".">> \o <<Digits[((h \div 10) % 10) + 1]>>
          \o <<Digits[(h % 10) + 1]>>

W_Table      == <<"T","a","b","l","e",":"," ">>
W_Item       == <<" "," ","-"," ">>
W_Open       == <<" ","(">>
W_Close      == <<")">>
W_unknown    == <<"u","n","k","n","o","w","n">>
W_References == <<" "," ","-"," ","R","e","f","e","r","e","n","c","e","s"," ">>
W_via        == <<" ","v","i","a"," ">>
W_Found      == <<"S","i","m","i","l","a","r"," ","q","u","e","r","i","e","s"," ","f","o","u","n","d",":","\n">>
W_Query      == <<"."," ","Q","u","e","r","y",":"," ">>
W_SQL        == <<" "," "," ","S","Q","L",":"," ">>
W_Similarity == <<" "," "," ","S","i","m","i","l","a","r","i","t","y",":"," ">>
W_Similar    == <<"=","=","="," ","S","i","m","i","l","a","r"," ","P","a","s","t"," ","Q","u","e","r","i","e","s"," ","=","=","=">>
W_Schema     == <<"\n","=","=","="," ","S","c","h","e","m","a"," ","C","o","n","t","e","x","t"," ","=","=","=">>
W_Related    == <<"\n","R","e","l","a","t","e","d"," ","t","a","b","l","e","s",":"," ">>
W_Comma      == <<","," ">>

RECURSIVE ColumnLines(_, _)
ColumnLines(G, neighbors) ==
    IF neighbors = <<>> THEN <<>>
    ELSE IF StartsWith(neighbors[1], P_column)
         THEN << W_Item \o G.nattr[neighbors[1]].name \o W_Open
                   \o GetAttr(G.nattr[neighbors[1]], "data_type", W_unknown)
                   \o W_Close >>
              \o ColumnLines(G, Tail(neighbors))
         ELSE ColumnLines(G, Tail(neighbors))

RECURSIVE ReferenceLines(_, _, _)
ReferenceLines(G, table_node, neighbors) ==
    IF neighbors = <<>> THEN <<>>
    ELSE IF StartsWith(neighbors[1], P_table)
         THEN << W_References \o Replace(neighbors[1], P_table, <<>>) \o W_via
                   \o GetAttr(G.eattr[<<table_node, neighbors[1]>>],
                              "via_column", <<>>) >>
              \o ReferenceLines(G, table_node, Tail(neighbors))
         ELSE ReferenceLines(G, table_node, Tail(neighbors))

RECURSIVE SchemaLines(_, _)
SchemaLines(G, tables) ==
    IF tables = <<>> THEN <<>>
    ELSE LET table_node == TableNode(tables[1])
         IN  (IF HasNode(G, table_node)
              THEN << W_Table \o tables[1] >>
                     \o ColumnLines(G, Neighbors(G, table_node))
                     \o ReferenceLines(G, table_node, Neighbors(G, table_node))
              ELSE <<>>)
             \o SchemaLines(G, Tail(tables))

get_schema_context(G, tables) == Join(NL, SchemaLines(G, tables))

\* top_k of find_similar_queries and max_hops of get_related_tables when
\* the caller passes none
DefaultTopK == 3
DefaultMaxHops == 2

RECURSIVE SimilarLines(_, _)
SimilarLines(similar, i) ==
    IF i > Len(similar) THEN <<>>
    ELSE IntStr(i) \o W_Query \o similar[i].query \o NL
           \o W_SQL \o similar[i].sql \o NL
           \o W_Similarity \o Fmt2f(similar[i].similarity) \o NL \o NL
           \o SimilarLines(similar, i + 1)

get_query_context(G, query_text) ==
    LET similar == find_similar_queries(G, query_text, DefaultTopK)
    IN  IF similar = <<>> THEN <<>> ELSE W_Found \o SimilarLines(similar, 1)

\* all_tables after the loop over the detected tables
RECURSIVE AllTables(_, _, _)
AllTables(G, tables, all_tables) ==
    IF tables = <<>> THEN all_tables
    ELSE AllTables(G, Tail(tables),
                   all_tables \cup Range(get_related_tables(G, tables[1],
                                                            DefaultMaxHops)))

\* the orders in which a set of strings may be iterated
Orderings(S) ==
    { p \in [1..Cardinality(S) -> S] : \A i, j \in DOMAIN p : i # j => p[i] # p[j] }

\* the parts the schema graph contributes; one list per iteration order of
\* the set all_tables - set(tables)
SchemaParts(SG, tables) ==
    IF tables = <<>> THEN { <<>> }
    ELSE LET head == << W_Schema, get_schema_context(SG, tables) >>
             all_tables == AllTables(SG, tables, Range(tables))
         IN  IF Cardinality(all_tables) > Len(tables)
             THEN { head \o << W_Related \o Join(W_Comma, p) >> :
                      p \in Orderings(all_tables \ Range(tables)) }
             ELSE { head }

\* a deliberately wrong variant: the heading of the similar queries is
\* put out whether or not there are any, and the flag is not consulted
ContextUnconditional(SG, QG, query_text, extract_tables) ==
    LET similar_queries == get_query_context(QG, query_text)
        first == << W_Similar, similar_queries >>
        rest  == SchemaParts(SG, extract_tables_from_query(query_text))
    IN  { Value(Join(NL, first \o parts)) : parts \in rest }

get_context_for_query(SG, QG, query_text, extract_tables) ==
    LET similar_queries == get_query_context(QG, query_text)
        first == IF similar_queries # <<>>
                 THEN << W_Similar, similar_queries >> ELSE <<>>
        rest  == IF extract_tables
                 THEN SchemaParts(SG, extract_tables_from_query(query_text))
                 ELSE { <<>> }
    IN  { Value(Join(NL, first \o parts)) : parts \in rest }

---------------------------------------------------------------------------
(* The facade's read operations                                            *)

C_users_id  == <<"u","s","e","r","s","_","i","d">>
C_orders_id == <<"o","r","d","e","r","s","_","i","d">>

\* a database holding, besides user and order, three of the tables the
\* facade looks for in a question
FacadeDatabase ==
    ChainDatabase \o
    << [name |-> T_users,  columns |-> << <<C_id, Y_int>> >>],
       [name |-> T_orders, columns |-> << <<C_id, Y_int>> >>],
       [name |-> K_events, columns |-> << <<C_id, Y_int>>, <<C_users_id, Y_int>>,
                                          <<C_orders_id, Y_int>> >>] >>

ContextTexts == {Q_state, Q_city, Q_items, Q_events}

SchemaContextArgs == { <<>>, <<T_users>>, <<K_events>>, <<K_events, T_ghost, T_order>> }

\* a deliberately wrong variant: the question asked is kept in the query graph
GetContextRecording ==
    \E query_text \in ContextTexts, extract_tables \in BOOLEAN :
      \E r \in get_context_for_query(schema_graph, query_graph, query_text,
                                     extract_tables) :
        /\ Returned("get_context_for_query", <<query_text, extract_tables>>, r)
        /\ query_graph' = AddNode(query_graph, P_query \o hash_query(query_text),
                                  [type |-> "query", text |-> query_text])
        /\ UNCHANGED <<db, schema_graph, now, file, history, snapshot, others>>

GetContextForQuery ==
    \E query_text \in ContextTexts, extract_tables \in BOOLEAN :
      \E r \in get_context_for_query(schema_graph, query_graph, query_text,
                                     extract_tables) :
        /\ Returned("get_context_for_query", <<query_text, extract_tables>>, r)
        /\ UNCHANGED state

GetSchemaContext ==
    \E tables \in SchemaContextArgs :
        /\ Returned("get_schema_context", <<tables>>,
                    Value(get_schema_context(schema_graph, tables)))
        /\ UNCHANGED state

GetQueryContext ==
    \E query_text \in ContextTexts :
        /\ Returned("get_query_context", <<query_text>>,
                    Value(get_query_context(query_graph, query_text)))
        /\ UNCHANGED state

\* the calls a client of the facade makes in this setting
FacadeTables == {T_users, K_events, T_ghost}

FacadeLists ==
    { <<>>, <<K_events, T_users>>, <<T_users, K_events>>,
      <<K_events, T_orders, T_users>> }

FacadeAdd ==
    \E query_text \in FacadeTexts, result \in Results :
        /\ now < MaxStored
        /\ query_graph' = add_query_result(query_graph, now, query_text, SQL_one,
                                           result, <<>>)
        /\ now' = now + 1
        /\ Remember(query_text, P_query \o hash_query(query_text))
        /\ Returned("add_query_result", <<query_text, SQL_one>>,
                    Value(hash_query(query_text)))
        /\ UNCHANGED <<db, schema_graph, file, snapshot, others>>

FacadeFindSimilar ==
    \E query_text \in ContextTexts, top_k \in 0..MaxTopK :
        /\ Returned("find_similar_queries", <<query_text, top_k>>,
                    Value(find_similar_queries(query_graph, query_text, top_k)))
        /\ UNCHANGED state

FacadeJoinPath ==
    \E table1, table2 \in FacadeTables :
      \E r \in get_join_path(schema_graph, table1, table2) :
        /\ Returned("get_join_path", <<table1, table2>>, r)
        /\ UNCHANGED state

FacadeRelatedTables ==
    \E table \in FacadeTables, max_hops \in 0..MaxHops :
        /\ Returned("get_related_tables", <<table, max_hops>>,
                    Value(get_related_tables(schema_graph, table, max_hops)))
        /\ UNCHANGED state

FacadeJoinSuggestions ==
    \E tables \in FacadeLists :
      \E r \in get_join_suggestions(schema_graph, tables) :
        /\ Returned("get_join_suggestions", <<tables>>, r)
        /\ UNCHANGED state

InitFacade == InitOver({FacadeDatabase}, {AbsentFile})
NextFacade ==
    \/ FacadeAdd
    \/ GetContextForQuery
    \/ GetSchemaContext
    \/ GetQueryContext
    \/ FacadeFindSimilar
    \/ FacadeJoinPath
    \/ FacadeRelatedTables
    \/ FacadeJoinSuggestions
    \/ SaveGraph
SpecFacade == InitFacade /\ [][NextFacade]_vars

---------------------------------------------------------------------------
(* Frame properties of the facade                                          *)

\* C13: the query graph is append-only: whatever facade operation is
\* taken, every node and every edge of the query graph is still there
\* afterwards.
C13_QueryGraphAppendOnly ==
    [][ /\ Range(query_graph.nodes) \subseteq Range(query_graph'.nodes)
        /\ DOMAIN query_graph.eattr \subseteq DOMAIN query_graph'.eattr ]_vars


ReadOps ==
    { "get_context_for_query", "get_join_suggestions", "get_related_tables",
      "get_join_path", "get_schema_context", "find_similar_queries",
      "get_query_context", "save_graph" }

\* C14: get_context_for_query, get_join_suggestions, get_related_tables,
\* get_join_path, get_schema_context, find_similar_queries,
\* get_query_context and save_graph leave the schema graph and the query
\* graph as they were, and add_query_result leaves the schema graph as it
\* was.
C14_ReadsLeaveGraphs ==
    [][ /\ ret'.op \in ReadOps =>
              /\ schema_graph' = schema_graph
              /\ query_graph' = query_graph
        /\ ret'.op = "add_query_result" => schema_graph' = schema_graph ]_vars

\* a context with a similar-queries section was assembled from a query
\* graph holding at least two questions
C14_Witness ==
    /\ ret.op = "get_context_for_query"
    /\ ret.out = "value"
    /\ StartsWith(ret.val, W_Similar)
    /\ Cardinality(QueryNodes) >= 2
    /\ schema_graph = build_schema_graph(db)


---------------------------------------------------------------------------
(* get_graph_rag: the process-wide instance.  A thread inside the function *)
(* is at one of its statements; other threads may run between them.        *)
(*   singleton.instance  _graph_rag_instance: 0 for None, else an index    *)
(*                       into heap                                          *)
(*   singleton.heap      the GraphRAG objects constructed so far           *)
(*   singleton.pc[t]     where thread t is                                  *)
(*   singleton.arg[t]    the db argument of t's call                        *)
(*   singleton.made[t]   the object t constructed and has yet to assign    *)
(*   singleton.got[t]    what t's calls returned, in order                 *)
(*   singleton.calls     bookkeeping: the db arguments in call order       *)

\* the db argument: None, or a handle the caller opened itself
DbArgs == {"none", "supplied"}

\* SQLDatabase.from_uri(f"sqlite:///{DATABASE}") when no handle is passed
HandleFor(arg) == IF arg = "none" THEN "default" ELSE arg

\* what the database behind a handle holds
ContentsOf(handle) == IF handle = "default" THEN ChainDatabase ELSE OtherDatabase

\* GraphRAG(db)
NewGraphRAG(handle) ==
    [ db |-> handle,
      schema_graph |-> build_schema_graph(ContentsOf(handle)),
      query_graph |-> EmptyGraph ]

Threads == DOMAIN singleton.pc

CallGetGraphRag(t) ==
    /\ singleton.pc[t] = "idle"
    /\ Len(singleton.calls) < MaxCalls
    /\ \E d \in DbArgs :
         singleton' = [singleton EXCEPT !.pc[t] = "test", !.arg[t] = d,
                                        !.calls = Append(@, d)]
    /\ UNCHANGED <<graphs, extra, limiter, visitors, ret>>

\* a deliberately wrong variant: a handle passed by the caller is always used
TestInstanceOrDb(t) ==
    /\ singleton.pc[t] = "test"
    /\ singleton' = [singleton EXCEPT !.pc[t] =
                        IF singleton.instance = 0 \/ singleton.arg[t] # "none"
                        THEN "construct" ELSE "return"]
    /\ UNCHANGED <<graphs, extra, limiter, visitors, ret>>

\* if _graph_rag_instance is None:
TestInstance(t) ==
    /\ singleton.pc[t] = "test"
    /\ singleton' = [singleton EXCEPT !.pc[t] =
                        IF singleton.instance = 0 THEN "construct" ELSE "return"]
    /\ UNCHANGED <<graphs, extra, limiter, visitors, ret>>

\* the right-hand side GraphRAG(db), db defaulted when None
Construct(t) ==
    /\ singleton.pc[t] = "construct"
    /\ singleton' = [singleton EXCEPT
                        !.heap = Append(@, NewGraphRAG(HandleFor(singleton.arg[t]))),
                        !.made[t] = Len(singleton.heap) + 1,
                        !.pc[t] = "assign"]
    /\ UNCHANGED <<graphs, extra, limiter, visitors, ret>>

\* _graph_rag_instance = <the object constructed>
AssignInstance(t) ==
    /\ singleton.pc[t] = "assign"
    /\ singleton' = [singleton EXCEPT !.instance = singleton.made[t],
                                      !.pc[t] = "return"]
    /\ UNCHANGED <<graphs, extra, limiter, visitors, ret>>

\* return _graph_rag_instance
ReturnInstance(t) ==
    /\ singleton.pc[t] = "return"
    /\ singleton' = [singleton EXCEPT !.got[t] = Append(@, singleton.instance),
                                      !.pc[t] = "idle"]
    /\ Returned("get_graph_rag", <<t, singleton.arg[t]>>, Value(singleton.instance))
    /\ UNCHANGED <<graphs, extra, limiter, visitors>>

\* a caller stores a query through the instance its last call returned
StoreThrough(t) ==
    /\ singleton.pc[t] = "idle"
    /\ singleton.got[t] # <<>>
    /\ LET i == Last(singleton.got[t])
       IN  /\ ~HasNode(singleton.heap[i].query_graph, P_query \o hash_query(Q_state))
           /\ singleton' = [singleton EXCEPT !.heap[i].query_graph =
                               add_query_result(@, 0, Q_state, SQL_one, "rows", <<>>)]
    /\ Returned("add_query_result", <<Q_state, SQL_one>>, Value(hash_query(Q_state)))
    /\ UNCHANGED <<graphs, extra, limiter, visitors>>

GetGraphRag ==
    \E t \in Threads :
        \/ CallGetGraphRag(t)
        \/ TestInstance(t)
        \/ Construct(t)
        \/ AssignInstance(t)
        \/ ReturnInstance(t)

Store == \E t \in Threads : StoreThrough(t)

InitSingleton(threads) ==
    /\ InitGraphs({ChainDatabase}, {AbsentFile})
    /\ singleton = SingletonInit(threads)
    /\ limiter = LimiterInit(1)
    /\ visitors = VisitorsInit
    /\ InitExtra

NextSingleton == GetGraphRag \/ Store

\* one thread
InitSingle == InitSingleton({1})
SpecSingle == InitSingle /\ [][NextSingleton]_vars

\* two threads
InitThreads == InitSingleton({1, 2})
SpecThreads == InitThreads /\ [][NextSingleton]_vars

Received == UNION { Range(singleton.got[t]) : t \in Threads }

\* C15: in a single thread every call to get_graph_rag returns the same
\* instance: the facade is constructed exactly once, on the first call,
\* with that call's database, and a handle passed to a later call neither
\* replaces the instance nor is used.
C15_OneInstance ==
    /\ Len(singleton.heap) <= 1
    /\ Received \subseteq {1}
    /\ Received # {} => Len(singleton.heap) = 1
    /\ singleton.heap # <<>> =>
          /\ singleton.heap[1].db = HandleFor(singleton.calls[1])
          /\ singleton.heap[1].schema_graph
                = build_schema_graph(ContentsOf(HandleFor(singleton.calls[1])))

\* the first call passed no handle, a later one passed its own, and both
\* returned
C15_Witness ==
    /\ singleton.calls = <<"none", "supplied">>
    /\ singleton.got[1] = <<1, 1>>
    /\ singleton.heap[1].db = "default"

\* C16: when two threads call get_graph_rag while no instance exists, the
\* facade is constructed exactly once and both receive the same instance,
\* so that a query stored through one caller's instance is seen through
\* the other's.
C16_OneInstanceAcrossThreads ==
    /\ Len(singleton.heap) <= 1
    /\ Cardinality(Received) <= 1
    /\ \A t, u \in Threads :
          (singleton.got[t] # <<>> /\ singleton.got[u] # <<>>) =>
              singleton.heap[Last(singleton.got[t])].query_graph
                = singleton.heap[Last(singleton.got[u])].query_graph


---------------------------------------------------------------------------
(* Construction over a database one of whose tables cannot be described    *)

BrokenDefs ==
    { [name |-> T_user,  columns |-> << <<C_id, Y_int>> >>, raises |-> TRUE],
      [name |-> T_order, columns |-> << <<C_id, Y_int>>, <<C_user_id, Y_int>> >>],
      [name |-> T_item,  columns |-> << <<C_id, Y_int>>, <<C_order_id, Y_int>>,
                                        <<C_user_id, Y_int>> >>] }

BrokenDatabases ==
    { s \in UNION {[1..n -> BrokenDefs] : n \in 0..Cardinality(BrokenDefs)} :
        \A i, j \in DOMAIN s : i # j => s[i] # s[j] }

InitBroken == InitOver(BrokenDatabases, {AbsentFile})
NextBroken == GetJoinPath \/ GetRelatedTables
SpecBroken == InitBroken /\ [][NextBroken]_vars

\* the tables listed up to position j
ListedUpTo(j) == {db[k].name : k \in 1..j}

\* C17: a table whose processing raises does not end the construction:
\* its node is in the graph, and every table listed after it has its node,
\* its columns, and a references edge for each key column whose candidate
\* names a table already listed.
C17_ConstructionContinues ==
    \A i \in DOMAIN db :
        Raises(db[i]) =>
            /\ HasNode(schema_graph, TableNode(db[i].name))
            /\ \A j \in (i + 1)..Len(db) :
                  LET t == db[j]
                  IN  /\ HasNode(schema_graph, TableNode(t.name))
                      /\ ~Raises(t) =>
                            \A c \in DOMAIN t.columns :
                               LET col == t.columns[c][1]
                               IN  /\ HasNode(schema_graph, ColumnNode(t.name, col))
                                   /\ HasEdge(schema_graph, TableNode(t.name),
                                              ColumnNode(t.name, col))
                                   /\ (LooksLikeForeignKey(col)
                                       /\ RefTable(col) \in ListedUpTo(j))
                                         => HasEdge(schema_graph, TableNode(t.name),
                                                    TableNode(RefTable(col)))

\* user cannot be described; order, listed after it, references user, and
\* a path from order to user was asked for and found
C17_Witness ==
    /\ Len(db) >= 2
    /\ Raises(db[1])
    /\ db[2].name = T_order
    /\ HasEdge(schema_graph, TableNode(T_order), TableNode(T_user))
    /\ ~HasNode(schema_graph, ColumnNode(T_user, C_id))
    /\ ret.op = "get_join_path"
    /\ ret.args = <<T_order, T_user>>
    /\ ret.val = <<T_order, T_user>>


---------------------------------------------------------------------------
(* Properties of the assembled context                                     *)

\* the text names one of the known tables, as written or with its
\* underscores as spaces
Mentions(text) ==
    \E i \in DOMAIN known_tables :
        \/ Contains(Lower(text), known_tables[i])
        \/ Contains(Lower(text), Replace(known_tables[i], <<"_">>, <<" ">>))

NoSimilar(text) ==
    \/ NodeOf(text) \notin QueryNodes
    \/ SimilarNeighbours(NodeOf(text)) = {}

\* C18: get_context_for_query(text, extract_tables) returns the empty
\* string whenever the text has no similar queries in the query graph and
\* mentions none of the known tables; with extract_tables false the result
\* has no schema-context and no related-tables section, whatever the text
\* mentions.
C18_ContextEmptyOrWithoutSchema ==
    ret.op = "get_context_for_query" =>
        LET text == ret.args[1]
            extract_tables == ret.args[2]
        IN  /\ ret.out = "value"
            /\ (NoSimilar(text) /\ ~Mentions(text)) => ret.val = <<>>
            /\ ~extract_tables =>
                  /\ ~Contains(ret.val, Tail(W_Schema))
                  /\ ~Contains(ret.val, Tail(W_Related))
                  /\ NoSimilar(text) => ret.val = <<>>

\* 'show revenue by state' was never stored, another question was; asked
\* with table extraction on, the context is empty
C18_Witness ==
    /\ ret.op = "get_context_for_query"
    /\ ret.args = <<Q_state, TRUE>>
    /\ NodeOf(Q_city) \in QueryNodes
    /\ NodeOf(Q_state) \notin QueryNodes
    /\ ret.val = <<>>

\* 'events by state' names a table of the schema graph; asked with table
\* extraction off, nothing comes back
C18_WitnessFlagOff ==
    /\ ret.op = "get_context_for_query"
    /\ ret.args = <<Q_events, FALSE>>
    /\ HasNode(schema_graph, TableNode(K_events))
    /\ ret.val = <<>>


---------------------------------------------------------------------------
(* RateLimiter (src/src/rate_limiter.py).  Time is in whole seconds.       *)
(*   limiter.requests      user key -> time stamps of its allowed calls    *)
(*                         (a defaultdict: reading a key creates it)       *)
(*   limiter.last_cleanup  when old entries were last removed              *)
(*   limiter.clock         time.time()                                     *)
(*   limiter.max_requests  the limit the caller passes                     *)
(*   limiter.allowed       bookkeeping: every allowed call, oldest first   *)

\* time_window at the call in generate_response, and the age beyond which
\* _cleanup_old_entries removes a time stamp
TimeWindow == 60
CleanupAge == 3600

\* what _get_user_key returns for the sessions
UserKeys == {"a", "b"}

\* by how much the clock moves between calls
ClockSteps == {30, 3590}

After(stamps, cutoff) == SelectSeq(stamps, LAMBDA ts : ts > cutoff)

\* requests[key] of the defaultdict
Stamps(requests, key) == IF key \in DOMAIN requests THEN requests[key] ELSE <<>>

\* a deliberately wrong variant: every time stamp older than the call is removed
CleanupEverything(L, current_time) ==
    IF current_time - L.last_cleanup > CleanupAge
    THEN [L EXCEPT !.requests = [k \in {x \in DOMAIN L.requests :
                                          After(L.requests[x], current_time - 1) # <<>>}
                                   |-> After(L.requests[k], current_time - 1)],
                   !.last_cleanup = current_time]
    ELSE L

cleanup_old_entries(L, current_time) ==
    IF current_time - L.last_cleanup > CleanupAge
    THEN LET cutoff_time == current_time - CleanupAge
         IN  [L EXCEPT !.requests = [k \in {x \in DOMAIN L.requests :
                                               After(L.requests[x], cutoff_time) # <<>>}
                                        |-> After(L.requests[k], cutoff_time)],
                       !.last_cleanup = current_time]
    ELSE L

RECURSIVE MinOf(_)
MinOf(stamps) ==
    IF Len(stamps) = 1 THEN stamps[1] ELSE Min(stamps[1], MinOf(Tail(stamps)))

W_Exceeded == <<"R","a","t","e"," ","l","i","m","i","t"," ","e","x","c","e","e","d","e","d","."," ","P","l","e","a","s","e"," ","w","a","i","t"," ">>
W_Seconds  == <<" ","s","e","c","o","n","d","s"," ","b","e","f","o","r","e"," ","m","a","k","i","n","g"," ","a","n","o","t","h","e","r"," ","r","e","q","u","e","s","t","."," ","(","L","i","m","i","t",":"," ">>
W_Per      == <<" ","r","e","q","u","e","s","t","s"," ","p","e","r"," ">>
W_End      == <<" ","s","e","c","o","n","d","s",")">>

\* the limiter after the call, and the pair (is_allowed, error_message)
check_rate_limit(L, user_key, max_requests, time_window, current_time) ==
    LET L1 == cleanup_old_entries(L, current_time)
        stamps == Stamps(L1.requests, user_key)
        touched == [k \in DOMAIN L1.requests \cup {user_key} |->
                       IF k = user_key THEN stamps ELSE L1.requests[k]]
        window_start == current_time - time_window
        recent_requests == After(stamps, window_start)
    IN  IF Len(recent_requests) >= max_requests
        THEN IF recent_requests = <<>>
             THEN [limiter |-> [L1 EXCEPT !.requests = touched],
                   r |-> Raise("ValueError")]
             ELSE LET wait_time == time_window
                                     - (current_time - MinOf(recent_requests))
                  IN  [limiter |-> [L1 EXCEPT !.requests = touched],
                       r |-> Value(<<FALSE, W_Exceeded \o IntStr(wait_time)
                                       \o W_Seconds \o IntStr(max_requests)
                                       \o W_Per \o IntStr(time_window) \o W_End>>)]
        ELSE [limiter |-> [L1 EXCEPT !.requests =
                              [touched EXCEPT ![user_key] = Append(@, current_time)]],
              r |-> Value(<<TRUE, <<>> >>)]

get_remaining_requests(L, user_key, max_requests, time_window, current_time) ==
    LET L1 == cleanup_old_entries(L, current_time)
        stamps == Stamps(L1.requests, user_key)
        touched == [k \in DOMAIN L1.requests \cup {user_key} |->
                       IF k = user_key THEN stamps ELSE L1.requests[k]]
        recent_requests == After(stamps, current_time - time_window)
    IN  [limiter |-> [L1 EXCEPT !.requests = touched],
         r |-> Value(Max(0, max_requests - Len(recent_requests)))]

CheckRateLimit ==
    \E user_key \in UserKeys :
        LET done == check_rate_limit(limiter, user_key, limiter.max_requests,
                                     TimeWindow, limiter.clock)
        IN  /\ limiter.calls < MaxChecks
            /\ limiter' = [done.limiter EXCEPT
                              !.calls = @ + 1,
                              !.allowed = IF done.r.out = "value" /\ done.r.val[1]
                                          THEN Append(@, <<user_key, limiter.clock>>)
                                          ELSE @]
            /\ Returned("check_rate_limit", <<user_key, limiter.clock>>, done.r)
            /\ UNCHANGED <<graphs, extra, singleton, visitors>>

GetRemainingRequests ==
    \E user_key \in UserKeys :
        LET done == get_remaining_requests(limiter, user_key, limiter.max_requests,
                                           TimeWindow, limiter.clock)
        IN  /\ limiter' = done.limiter
            /\ Returned("get_remaining_requests", <<user_key, limiter.clock>>, done.r)
            /\ UNCHANGED <<graphs, extra, singleton, visitors>>

\* time passes
Tick ==
    \E d \in ClockSteps :
        /\ limiter.ticks < MaxTicks
        /\ limiter' = [limiter EXCEPT !.clock = @ + d, !.ticks = @ + 1]
        /\ UNCHANGED <<graphs, extra, singleton, visitors, ret>>

InitLimiter ==
    /\ InitGraphs({ChainDatabase}, {AbsentFile})
    /\ singleton = SingletonInit({})
    /\ limiter \in {LimiterInit(m) : m \in 1..MaxRequests}
    /\ visitors = VisitorsInit
    /\ InitExtra

NextLimiter == CheckRateLimit \/ GetRemainingRequests \/ Tick
SpecLimiter == InitLimiter /\ [][NextLimiter]_vars

\* the allowed calls of a user key, as positions in limiter.allowed
AllowedOf(key) == {i \in DOMAIN limiter.allowed : limiter.allowed[i][1] = key}

\* those among them, made before position upto, with a time stamp in the
\* window_seconds up to time at
InWindow(key, at, upto) ==
    {i \in AllowedOf(key) : /\ i < upto
                            /\ limiter.allowed[i][2] > at - TimeWindow
                            /\ limiter.allowed[i][2] <= at}

\* C19: a call of check_rate_limit by a user key is denied exactly when at
\* least max_requests earlier allowed calls of that key have a time stamp
\* within the last time_window seconds; so no key has more than
\* max_requests allowed calls in any window of time_window seconds, and
\* the outcome for one key does not depend on the calls of another.
C19_SlidingWindowPerUser ==
    /\ ret.op = "check_rate_limit" =>
          LET key == ret.args[1]
              at == ret.args[2]
              is_allowed == ret.out = "value" /\ ret.val[1]
              before == IF is_allowed THEN Len(limiter.allowed)
                        ELSE Len(limiter.allowed) + 1
          IN  /\ ret.out = "value"
              /\ ~is_allowed <=>
                    Cardinality(InWindow(key, at, before)) >= limiter.max_requests
    /\ \A i \in DOMAIN limiter.allowed :
          Cardinality(InWindow(limiter.allowed[i][1], limiter.allowed[i][2], i + 1))
             <= limiter.max_requests

\* user a is denied at a moment when b is allowed, after a cleanup of old
\* entries has run
C19_Witness ==
    /\ ret.op = "check_rate_limit"
    /\ ret.args[1] = "a"
    /\ ret.val[1] = FALSE
    /\ limiter.last_cleanup > 0
    /\ AllowedOf("b") # {}
    /\ Cardinality(InWindow("b", ret.args[2], Len(limiter.allowed) + 1))
          < limiter.max_requests


---------------------------------------------------------------------------
(* Visitor log (src/src/visitor_tracker.py)                                *)
(*   visitors.log      the log file: absent, unreadable, or the JSON       *)
(*                     document [total_visitors, unique_sessions,          *)
(*                     last_updated]                                       *)
(*   visitors.calls    number of calls so far; stands for datetime.now()   *)
(*   visitors.tracked  bookkeeping: the ids passed to track_visitor        *)
(* A set of session ids is kept as the number n of its members             *)
(* initial_session_0 .. initial_session_(n-1) and the set of the others.   *)

InitialCount == 10000

P_initial == <<"i","n","i","t","i","a","l","_","s","e","s","s","i","o","n","_">>

\* the natural number a string of digits spells as str() prints it, else -1
RECURSIVE DigitsValue(_, _)
DigitsValue(cs, acc) ==
    IF cs = <<>> THEN acc
    ELSE IF \E d \in 1..10 : Digits[d] = cs[1]
         THEN DigitsValue(Tail(cs),
                          10 * acc + (CHOOSE d \in 1..10 : Digits[d] = cs[1]) - 1)
         ELSE -1

ParseNat(cs) ==
    IF cs = <<>> \/ (Len(cs) > 1 /\ cs[1] = "0") THEN -1 ELSE DigitsValue(cs, 0)

\* i when id is f"initial_session_{i}", else -1
InitialIndex(id) ==
    IF StartsWith(id, P_initial)
    THEN ParseNat(SubSeq(id, Len(P_initial) + 1, Len(id)))
    ELSE -1

\* [f"initial_session_{i}" for i in range(n)]
InitialSessions(n) == [initial |-> n, extra |-> {}]

\* id in sessions
HasSession(sessions, id) ==
    \/ id \in sessions.extra
    \/ (InitialIndex(id) >= 0 /\ InitialIndex(id) < sessions.initial)

\* sessions.add(id)
AddSession(sessions, id) ==
    IF HasSession(sessions, id) THEN sessions
    ELSE [sessions EXCEPT !.extra = @ \cup {id}]

\* len(sessions)
CountSessions(sessions) == sessions.initial + Cardinality(sessions.extra)

\* for i in range(k): sessions.add(f"initial_session_{i}")
AddInitial(sessions, k) ==
    [ initial |-> Max(sessions.initial, k),
      extra |-> {x \in sessions.extra : ~(InitialIndex(x) >= 0 /\ InitialIndex(x) < k)} ]

DefaultData(time) ==
    [ total_visitors |-> InitialCount,
      unique_sessions |-> InitialSessions(InitialCount),
      last_updated |-> time ]

\* the file after save_visitor_data(data)
SavedLog(data) ==
    [ kind |-> "json",
      total_visitors |-> data.total_visitors,
      unique_sessions |-> data.unique_sessions,
      last_updated |-> data.last_updated ]

\* the data load_visitor_data returns, and the file it leaves
load_visitor_data(log, time) ==
    IF log.kind = "json"
    THEN IF log.total_visitors < InitialCount
         THEN LET data == [ total_visitors |-> InitialCount,
                            unique_sessions |->
                                AddInitial(log.unique_sessions,
                                           InitialCount
                                             - CountSessions(log.unique_sessions)),
                            last_updated |-> log.last_updated ]
              IN  [data |-> data, log |-> SavedLog(data)]
         ELSE [data |-> [ total_visitors |-> log.total_visitors,
                          unique_sessions |-> log.unique_sessions,
                          last_updated |-> log.last_updated ],
               log |-> log]
    ELSE [data |-> DefaultData(time), log |-> SavedLog(DefaultData(time))]

\* data after the 'ensure minimum count' block
Topped(data) ==
    IF CountSessions(data.unique_sessions) < InitialCount
    THEN LET sessions == AddInitial(data.unique_sessions,
                                    InitialCount - CountSessions(data.unique_sessions))
         IN  [data EXCEPT !.unique_sessions = sessions,
                          !.total_visitors = CountSessions(sessions)]
    ELSE data

\* a deliberately wrong variant: an id is new whenever it is not recorded
TrackAnyUnrecorded(log, session_id, time) ==
    LET loaded == load_visitor_data(log, time)
        data == Topped(loaded.data)
        log1 == IF data # loaded.data THEN SavedLog(data) ELSE loaded.log
        is_new_visitor == ~HasSession(data.unique_sessions, session_id)
        sessions == AddSession(data.unique_sessions, session_id)
        data2 == IF is_new_visitor
                 THEN [ total_visitors |-> CountSessions(sessions),
                        unique_sessions |-> sessions,
                        last_updated |-> time ]
                 ELSE data
    IN  [ log |-> IF is_new_visitor THEN SavedLog(data2) ELSE log1,
          r |-> Value([ total_visitors |-> data2.total_visitors,
                        is_new_visitor |-> is_new_visitor,
                        last_updated |-> data2.last_updated ]) ]

track_visitor(log, session_id, time) ==
    LET loaded == load_visitor_data(log, time)
        data == Topped(loaded.data)
        log1 == IF data # loaded.data THEN SavedLog(data) ELSE loaded.log
        is_new_visitor == /\ ~HasSession(data.unique_sessions, session_id)
                          /\ ~StartsWith(session_id, P_initial)
        sessions == AddSession(data.unique_sessions, session_id)
        data2 == IF is_new_visitor
                 THEN [ total_visitors |-> CountSessions(sessions),
                        unique_sessions |-> sessions,
                        last_updated |-> time ]
                 ELSE data
    IN  [ log |-> IF is_new_visitor THEN SavedLog(data2) ELSE log1,
          r |-> Value([ total_visitors |-> data2.total_visitors,
                        is_new_visitor |-> is_new_visitor,
                        last_updated |-> data2.last_updated ]) ]

get_visitor_count(log, time) ==
    LET loaded == load_visitor_data(log, time)
        data == Topped(loaded.data)
        log1 == IF data # loaded.data THEN SavedLog(data) ELSE loaded.log
    IN  [ log |-> log1,
          r |-> Value([ total_visitors |-> CountSessions(data.unique_sessions),
                        last_updated |-> data.last_updated ]) ]

\* session ids: two of sessions, one of the initial ids, one that only
\* looks like an initial id
V_one   == <<"1","4","0","2","1","1">>
V_two   == <<"1","4","0","3","7","7">>
V_first == <<"i","n","i","t","i","a","l","_","s","e","s","s","i","o","n","_","0">>
V_next  == <<"i","n","i","t","i","a","l","_","s","e","s","s","i","o","n","_","1","0","0","0","0">>
SessionIds == {V_one, V_two, V_first, V_next}

TrackVisitor ==
    \E session_id \in SessionIds :
        LET done == track_visitor(visitors.log, session_id, visitors.calls + 1)
        IN  /\ visitors.calls < MaxVisits
            /\ visitors' = [ log |-> done.log, calls |-> visitors.calls + 1,
                             tracked |-> visitors.tracked \cup {session_id} ]
            /\ Returned("track_visitor", <<session_id>>, done.r)
            /\ UNCHANGED <<graphs, extra, singleton, limiter>>

GetVisitorCount ==
    LET done == get_visitor_count(visitors.log, visitors.calls + 1)
    IN  /\ visitors.calls < MaxVisits
        /\ visitors' = [visitors EXCEPT !.log = done.log, !.calls = @ + 1]
        /\ Returned("get_visitor_count", <<>>, done.r)
        /\ UNCHANGED <<graphs, extra, singleton, limiter>>

InitVisitors == InitOver({ChainDatabase}, {AbsentFile})
NextVisitors == TrackVisitor \/ GetVisitorCount
SpecVisitors == InitVisitors /\ [][NextVisitors]_vars

\* the count on record: that of the log file, 10000 while there is none
TotalOf(v) == IF v.log.kind = "json" THEN v.log.total_visitors ELSE InitialCount

\* the ids tracked so far that are not of the initial kind
OwnIds(v) == {id \in v.tracked : ~StartsWith(id, P_initial)}

---------------------------------------------------------------------------
(* run_with_timeout: a caller, the executor's one worker thread, a clock    *)

Timeout == 30
TickStep == 10
MaxRuns == 2

\* what the submitted function does: it completes at some time, or never
Funcs == {"completes", "never"}

\* executor.submit(func): the worker thread starts running func
Submit ==
    \E func \in Funcs :
        /\ pool.pc = "idle"
        /\ Len(pool.log) < MaxRuns
        /\ pool' = [pool EXCEPT !.pc = "waiting", !.worker = "running",
                                !.func = func, !.elapsed = 0,
                                !.pending = "none"]
        /\ UNCHANGED <<graphs, singleton, limiter, visitors, writers, session, twin, ret>>

\* the worker thread: func returns
FuncCompletes ==
    /\ pool.worker = "running"
    /\ pool.func = "completes"
    /\ pool' = [pool EXCEPT !.worker = "done"]
    /\ UNCHANGED <<graphs, singleton, limiter, visitors, writers, session, twin, ret>>

\* time passes while a call is under way
TickClock ==
    /\ pool.pc # "idle"
    /\ pool.elapsed < Timeout + TickStep
    /\ pool' = [pool EXCEPT !.elapsed = @ + TickStep]
    /\ UNCHANGED <<graphs, singleton, limiter, visitors, writers, session, twin, ret>>

\* future.result(timeout=timeout) finds the future finished
ResultReady ==
    /\ pool.pc = "waiting"
    /\ pool.worker = "done"
    /\ pool' = [pool EXCEPT !.pc = "exiting", !.pending = "result"]
    /\ UNCHANGED <<graphs, singleton, limiter, visitors, writers, session, twin, ret>>

\* future.result(timeout=timeout) gives up after timeout seconds: the
\* FuturesTimeoutError is caught and TimeoutError is raised inside the
\* with block
ResultTimeout ==
    /\ pool.pc = "waiting"
    /\ pool.worker = "running"
    /\ pool.elapsed >= Timeout
    /\ pool' = [pool EXCEPT !.pc = "exiting", !.pending = "TimeoutError"]
    /\ UNCHANGED <<graphs, singleton, limiter, visitors, writers, session, twin, ret>>

\* leaving the with block: ThreadPoolExecutor.__exit__ is
\* shutdown(wait=True), which joins the worker thread; only then does the
\* return value or the TimeoutError reach the caller
LeaveWith ==
    /\ pool.pc = "exiting"
    /\ pool.worker = "done"
    /\ pool' = [pool EXCEPT !.pc = "idle", !.worker = "none",
                            !.log = Append(@, [ func |-> pool.func,
                                                got |-> pool.pending,
                                                after |-> pool.elapsed ])]
    /\ Returned("run_with_timeout", <<pool.func>>,
                IF pool.pending = "result" THEN Value(pool.func)
                ELSE Raise("TimeoutError"))
    /\ UNCHANGED <<graphs, singleton, limiter, visitors, writers, session, twin>>

run_with_timeout == ResultReady \/ ResultTimeout \/ LeaveWith

InitTimeout == InitOver({ChainDatabase}, {AbsentFile})
NextTimeout == Submit \/ FuncCompletes \/ TickClock \/ run_with_timeout

\* the caller's thread and the worker thread are scheduled and time
\* passes; nothing makes a function that never completes complete
SpecTimeout ==
    /\ InitTimeout
    /\ [][NextTimeout]_vars
    /\ WF_vars(run_with_timeout)
    /\ WF_vars(FuncCompletes)
    /\ WF_vars(TickClock)

\* C21: every call of run_with_timeout hands control back to its caller,
\* also when func never completes.
C21_ReturnsControl == (pool.pc = "waiting") ~> (pool.pc = "idle")

---------------------------------------------------------------------------
(* The join columns of a suggestion                                        *)

\* the positions of the records of a result for the pair (a, b)
RecordsFor(val, a, b) == {i \in DOMAIN val : val[i].from = a /\ val[i].to = b}

\* C22: in the records get_join_suggestions returns, 'via' holds the
\* via_column of the references edge from -> to when there is one and is
\* empty otherwise; a pair joined only through another table is in the
\* result, with its path and an empty 'via'.
C22_ViaOfDirectEdge ==
    (ret.op = "get_join_suggestions" /\ ret.out = "value") =>
        LET tables == ret.args[1]
        IN  /\ \A i \in DOMAIN ret.val :
                  LET a == ret.val[i].from
                      b == ret.val[i].to
                  IN  ret.val[i].via
                        = IF RefEdge(a, b)
                          THEN <<schema_graph.eattr[<<TableNode(a), TableNode(b)>>].via_column>>
                          ELSE <<>>
            /\ \A i, j \in DOMAIN tables :
                  (/\ i < j
                   /\ tables[i] # tables[j]
                   /\ ~RefEdge(tables[i], tables[j])
                   /\ WalksFromTo(tables[i], tables[j], Cardinality(KnownTables)) # {})
                  => \E k \in RecordsFor(ret.val, tables[i], tables[j]) :
                        /\ ret.val[k].via = <<>>
                        /\ Len(ret.val[k].path) > 2
                        /\ IsWalk(ret.val[k].path)

\* item references order and order references user, item does not
\* reference user: the pair (item, user) is suggested through order
C22_Witness ==
    /\ ret.op = "get_join_suggestions"
    /\ ret.args = << <<T_item, T_user>> >>
    /\ ret.out = "value"
    /\ ret.val = << [from |-> T_item, to |-> T_user,
                     path |-> <<T_item, T_order, T_user>>, via |-> <<>>] >>

---------------------------------------------------------------------------
(* Two columns of one table that name the same other table                 *)

ReferenceLine(ref_table, col_name) == W_References \o ref_table \o W_via \o col_name

\* C23: when two different columns of a table both reference the same
\* table (one listed no later than the table itself, so that both are
\* detected), the table's schema context has a 'References' line for each
\* column and the join suggestion for the pair names both columns in 'via'.
C23_BothReferencesKept ==
    \A i \in DOMAIN db : \A m, n \in DOMAIN db[i].columns :
        LET table == db[i].name
            c1 == db[i].columns[m][1]
            c2 == db[i].columns[n][1]
            ref_table == RefTable(c1)
        IN  (/\ m < n
             /\ c1 # c2
             /\ LooksLikeForeignKey(c1)
             /\ LooksLikeForeignKey(c2)
             /\ RefTable(c2) = ref_table
             /\ \E j \in 1..i : db[j].name = ref_table)
            => /\ {ReferenceLine(ref_table, c1), ReferenceLine(ref_table, c2)}
                    \subseteq Range(SchemaLines(schema_graph, <<table>>))
               /\ \A r \in get_join_suggestions(schema_graph, <<table, ref_table>>) :
                     /\ r.out = "value"
                     /\ Len(r.val) = 1
                     /\ {c1, c2} \subseteq Range(r.val[1].via)

---------------------------------------------------------------------------
(* The similar_to edges of the query graph                                 *)

SimilarEdges(G) ==
    {e \in DOMAIN G.eattr : GetAttr(G.eattr[e], "relationship", "") = "similar_to"}

IsQueryNode(G, n) ==
    HasNode(G, n) /\ StartsWith(n, P_query) /\ GetAttr(G.nattr[n], "type", "") = "query"

\* C24: every similar_to edge joins two distinct query nodes and carries
\* a similarity greater than 0.3 and at most 1.
C24_SimilarEdgesWellFormed ==
    \A e \in SimilarEdges(query_graph) :
        /\ e[1] # e[2]
        /\ IsQueryNode(query_graph, e[1])
        /\ IsQueryNode(query_graph, e[2])
        /\ "similarity" \in DOMAIN query_graph.eattr[e]
        /\ Greater(query_graph.eattr[e].similarity, Threshold)
        /\ ~Greater(query_graph.eattr[e].similarity, <<1, 1>>)

\* three queries were added and the last one was linked to both others
C24_Witness ==
    /\ now = 3
    /\ \E e, f \in SimilarEdges(query_graph) :
          /\ e[1] = f[1]
          /\ e[2] # f[2]
          /\ query_graph.eattr[e].similarity = <<1, 2>>

---------------------------------------------------------------------------
(* Threads inside QueryGraphBuilder.add_query.  A step is one insertion    *)
(* into the graph (one loop for the entity and for the table arguments)    *)
(* or one turn of the loop over graph.nodes().                             *)

Writers == DOMAIN writers.pc

\* the texts a thread submits: those of different threads are distinct
WriterTexts(t) == IF t = 1 THEN {Q_state} ELSE {Q_city, Q_items}

QueryNodeOf(c) == P_query \o hash_query(c.query_text)
SqlNodeOf(c) == P_sql \o hash_sql(c.sql_query)
ResultNodeOf(c) == P_result \o hash_query(c.query_text)

Step(t, pc, G) ==
    /\ writers' = [writers EXCEPT !.pc[t] = pc]
    /\ query_graph' = G
    /\ UNCHANGED <<db, schema_graph, now, file, history, snapshot, singleton,
                   limiter, visitors, pool, session, twin, ret>>

\* a thread calls add_query(query_text, sql_query, result, entities, tables)
CallAddQuery(t) ==
    \E query_text \in WriterTexts(t), more \in AddArgs, result \in Results :
        /\ writers.pc[t] = "idle"
        /\ writers' = [writers EXCEPT
                         !.pc[t] = "query_node",
                         !.call[t] = [ query_text |-> query_text,
                                       sql_query |-> more.sql_query,
                                       result |-> result,
                                       entities |-> more.entities,
                                       tables |-> more.tables,
                                       timestamp |-> t, size |-> 0, i |-> 0 ]]
        /\ UNCHANGED <<graphs, singleton, limiter, visitors, pool, session, twin, ret>>

AddQueryNode(t) ==
    LET c == writers.call[t]
    IN  /\ writers.pc[t] = "query_node"
        /\ Step(t, "sql_node",
                AddNode(query_graph, QueryNodeOf(c),
                        [type |-> "query", text |-> c.query_text,
                         sql |-> c.sql_query, timestamp |-> c.timestamp]))

AddSqlNode(t) ==
    LET c == writers.call[t]
    IN  /\ writers.pc[t] = "sql_node"
        /\ Step(t, "generates",
                AddNode(query_graph, SqlNodeOf(c),
                        [type |-> "sql", query |-> c.sql_query]))

AddGenerates(t) ==
    LET c == writers.call[t]
    IN  /\ writers.pc[t] = "generates"
        /\ Step(t, "result_node",
                AddEdge(query_graph, QueryNodeOf(c), SqlNodeOf(c),
                        [relationship |-> "generates"]))

AddResultNode(t) ==
    LET c == writers.call[t]
    IN  /\ writers.pc[t] = "result_node"
        /\ Step(t, "returns",
                AddNode(query_graph, ResultNodeOf(c),
                        [type |-> "result", data |-> c.result]))

AddReturns(t) ==
    LET c == writers.call[t]
    IN  /\ writers.pc[t] = "returns"
        /\ Step(t, "mentions",
                AddEdge(query_graph, SqlNodeOf(c), ResultNodeOf(c),
                        [relationship |-> "returns"]))

AddMentions(t) ==
    LET c == writers.call[t]
    IN  /\ writers.pc[t] = "mentions"
        /\ Step(t, "queries", AddEntities(query_graph, QueryNodeOf(c), c.entities))

AddQueries(t) ==
    LET c == writers.call[t]
    IN  /\ writers.pc[t] = "queries"
        /\ Step(t, "iterate", AddTables(query_graph, QueryNodeOf(c), c.tables))

\* for node in self.graph.nodes(): the iterator over the node dictionary
\* is created; it remembers the size of the dictionary
StartScan(t) ==
    /\ writers.pc[t] = "iterate"
    /\ writers' = [writers EXCEPT !.pc[t] = "scan",
                                  !.call[t].size = Len(query_graph.nodes),
                                  !.call[t].i = 1]
    /\ UNCHANGED <<graphs, singleton, limiter, visitors, pool, session, twin, ret>>

\* one turn of the loop: the iterator raises RuntimeError when the
\* dictionary changed size since it was created; otherwise the loop ends
\* or its body runs for the next node
ScanStep(t) ==
    LET c == writers.call[t]
    IN  /\ writers.pc[t] = "scan"
        /\ IF Len(query_graph.nodes) # c.size
           THEN /\ writers' = [writers EXCEPT !.pc[t] = "raised"]
                /\ Returned("add_query", <<c.query_text, c.sql_query>>,
                            Raise("RuntimeError"))
                /\ UNCHANGED <<graphs, singleton, limiter, visitors, pool, session, twin>>
           ELSE IF c.i > c.size
           THEN /\ writers' = [writers EXCEPT !.pc[t] = "done"]
                /\ Returned("add_query", <<c.query_text, c.sql_query>>,
                            Value(hash_query(c.query_text)))
                /\ UNCHANGED <<graphs, singleton, limiter, visitors, pool, session, twin>>
           ELSE /\ writers' = [writers EXCEPT !.call[t].i = @ + 1]
                /\ query_graph' = ConnectTo(query_graph, <<query_graph.nodes[c.i]>>,
                                            QueryNodeOf(c),
                                            Range(extract_entities(c.query_text)))
                /\ UNCHANGED <<db, schema_graph, now, file, history, snapshot,
                               singleton, limiter, visitors, pool, session, twin, ret>>

ThreadAddQuery ==
    \E t \in Writers :
        \/ CallAddQuery(t)
        \/ AddQueryNode(t)
        \/ AddSqlNode(t)
        \/ AddGenerates(t)
        \/ AddResultNode(t)
        \/ AddReturns(t)
        \/ AddMentions(t)
        \/ AddQueries(t)
        \/ StartScan(t)
        \/ ScanStep(t)

InitWriters ==
    /\ InitGraphs({ChainDatabase}, {AbsentFile})
    /\ singleton = SingletonInit({})
    /\ limiter = LimiterInit(1)
    /\ visitors = VisitorsInit
    /\ pool = PoolInit
    /\ writers = WritersInit({1, 2})
    /\ session = SessionInit(FALSE, FALSE)
    /\ twin = EmptyGraph

NextWriters == ThreadAddQuery
SpecWriters == InitWriters /\ [][NextWriters]_vars

\* the graph after the call of thread first and then that of thread second
OneAfterTheOther(first, second) ==
    LET a == writers.call[first]
        b == writers.call[second]
    IN  add_query(add_query(EmptyGraph, a.timestamp, a.query_text, a.sql_query,
                            a.result, a.entities, a.tables),
                  b.timestamp, b.query_text, b.sql_query, b.result, b.entities,
                  b.tables)

\* the same nodes and edges with the same attributes, in whatever order
\* they were inserted
SameGraph(G, H) == G.nattr = H.nattr /\ G.eattr = H.eattr

\* C25: when two concurrent add_query calls for distinct texts have both
\* returned, the query graph is one that the two calls made one after the
\* other, in some order, produce, and the two new query nodes are not
\* linked by similar_to edges in both directions.
C25_ConcurrentAddsSerializable ==
    (writers.pc = [t \in {1, 2} |-> "done"]) =>
        /\ \/ SameGraph(query_graph, OneAfterTheOther(1, 2))
           \/ SameGraph(query_graph, OneAfterTheOther(2, 1))
        /\ LET a == QueryNodeOf(writers.call[1])
               b == QueryNodeOf(writers.call[2])
           IN  ~(<<a, b>> \in SimilarEdges(query_graph)
                 /\ <<b, a>> \in SimilarEdges(query_graph))

---------------------------------------------------------------------------
(* The generates edges of the query graph                                  *)

GeneratesFrom(G, n) ==
    {e \in DOMAIN G.eattr :
        e[1] = n /\ GetAttr(G.eattr[e], "relationship", "") = "generates"}

\* C26: every query node has exactly one outgoing generates edge, to the
\* sql node of the SQL in its sql attribute.
C26_OneGeneratesEdge ==
    \A n \in Range(query_graph.nodes) :
        IsQueryNode(query_graph, n) =>
            GeneratesFrom(query_graph, n)
                = {<<n, P_sql \o hash_sql(query_graph.nattr[n].sql)>>}

---------------------------------------------------------------------------
(* Two runs of the same add_query calls that differ in the entities and    *)
(* tables arguments only                                                   *)

MaxTwinAdds == 3

TwinTexts == {Q_state, Q_city, Q_month}

\* the entities and tables of a call: none, or a list of the caller's
Extras == { [entities |-> <<>>, tables |-> <<>>],
            [entities |-> <<E_brand>>, tables |-> <<K_events>>] }

AddInBothRuns ==
    \E query_text \in TwinTexts, result \in Results, one, other \in Extras :
        /\ now < MaxTwinAdds
        /\ query_graph' = add_query(query_graph, now, query_text, SQL_one, result,
                                    one.entities, one.tables)
        /\ twin' = add_query(twin, now, query_text, SQL_one, result,
                             other.entities, other.tables)
        /\ now' = now + 1
        /\ Remember(query_text, P_query \o hash_query(query_text))
        /\ Returned("add_query", <<query_text, SQL_one>>,
                    Value(hash_query(query_text)))
        /\ UNCHANGED <<db, schema_graph, file, snapshot, singleton, limiter,
                       visitors, pool, writers, session>>

InitTwin == InitOver({ChainDatabase}, {AbsentFile})
NextTwin == AddInBothRuns
SpecTwin == InitTwin /\ [][NextTwin]_vars

\* the similar_to edges of a graph with their similarity values
SimilarPart(G) == [e \in SimilarEdges(G) |-> G.eattr[e].similarity]

\* C27: two runs of the same add_query calls that differ only in the
\* entities and tables arguments have the same similar_to edges with the
\* same similarity values.
C27_SimilarEdgesFromTextsOnly == SimilarPart(query_graph) = SimilarPart(twin)

\* the runs linked two queries and differ in their entity nodes
C27_Witness ==
    /\ SimilarEdges(query_graph) # {}
    /\ HasNode(query_graph, P_entity \o E_brand)
    /\ ~HasNode(twin, P_entity \o E_brand)

---------------------------------------------------------------------------
(* Context for a text that was never stored                                *)

\* no stored text has the normalized form of this one
NeverAdded(text) ==
    \A t \in history.texts : Strip(Lower(t)) # Strip(Lower(text))

\* C28: for a text whose normalized form was never added,
\* get_query_context returns the empty string and the result of
\* get_context_for_query has no similar-past-queries section, whatever
\* the query graph holds.
C28_UnseenTextHasNoSimilar ==
    /\ (ret.op = "get_query_context" /\ NeverAdded(ret.args[1]))
          => (ret.out = "value" /\ ret.val = <<>>)
    /\ (ret.op = "get_context_for_query" /\ NeverAdded(ret.args[1]))
          => /\ ret.out = "value"
             /\ ~Contains(ret.val, W_Similar)
             /\ ~Contains(ret.val, W_Found)

\* 'show revenue by state' and 'order items by state' are stored, both
\* with the one keyword of 'events by state', which was never stored: its
\* context is the schema section alone
C28_Witness ==
    /\ ret.op = "get_context_for_query"
    /\ ret.args = <<Q_events, TRUE>>
    /\ history.texts = {Q_state, Q_items}
    /\ Range(extract_entities(Q_events))
          \subseteq Range(extract_entities(Q_state)) \cap Range(extract_entities(Q_items))
    /\ StartsWith(ret.val, W_Schema)

---------------------------------------------------------------------------
(* The references edges and the order of the table listing                 *)

\* the references edges of a schema graph, with their attributes
ReferencesPart(G) ==
    [e \in {x \in DOMAIN G.eattr :
              GetAttr(G.eattr[x], "relationship", "") = "references"} |-> G.eattr[e]]

\* the listings of the same tables in another order
Relistings(database) ==
    {d \in Databases : Len(d) = Len(database) /\ Range(d) = Range(database)}

\* C29: the references edges of the finished schema graph are those of
\* the graph built from any other listing of the same tables.
C29_ReferencesOrderIndependent ==
    \A d \in Relistings(db) :
        ReferencesPart(build_schema_graph(d)) = ReferencesPart(schema_graph)

---------------------------------------------------------------------------
(* input_validation: validate_query_input and sanitize_input.  A character *)
(* outside printable ASCII, and the backquote, is written as one element    *)
(* "U+<code point>".                                                       *)

MaxLength == 2000
MinLength == 3
MaxSpecial == 10

Digit(c) == \E i \in DOMAIN Digits : Digits[i] = c
Letter(c) == c \in Range(LowerLetters) \cup Range(UpperLetters) \cup {"U+00E9"}

\* the character classes \s, \w and . of the patterns
InClass(class, c) ==
    CASE class = "s" -> IsSpace(c)
      [] class = "w" -> Letter(c) \/ Digit(c) \/ c = "_"
      [] OTHER       -> c # "\n"

\* whether the items of pattern p from the k-th on match text at position
\* i: a literal, one of several literals, a run of a character class of at
\* least min characters, or the end of the text ($ also matches before a
\* final newline)
RECURSIVE MatchHere(_, _, _, _)
MatchHere(p, k, text, i) ==
    IF k > Len(p) THEN TRUE
    ELSE CASE p[k].k = "lit" ->
                /\ i + Len(p[k].s) - 1 <= Len(text)
                /\ SubSeq(text, i, i + Len(p[k].s) - 1) = p[k].s
                /\ MatchHere(p, k + 1, text, i + Len(p[k].s))
           [] p[k].k = "alt" ->
                \E o \in p[k].opts :
                    /\ i + Len(o) - 1 <= Len(text)
                    /\ SubSeq(text, i, i + Len(o) - 1) = o
                    /\ MatchHere(p, k + 1, text, i + Len(o))
           [] p[k].k = "rep" ->
                \E n \in p[k].min..(Len(text) - i + 1) :
                    /\ \A j \in i..(i + n - 1) : InClass(p[k].c, text[j])
                    /\ MatchHere(p, k + 1, text, i + n)
           [] OTHER ->
                /\ i = Len(text) + 1 \/ (i = Len(text) /\ text[i] = "\n")
                /\ MatchHere(p, k + 1, text, i)

\* re.search(pattern, text)
Search(pattern, text) ==
    \E p \in {pattern} : \E i \in 1..(Len(text) + 1) : MatchHere(p, 1, text, i)

M_empty == <<"I","n","p","u","t"," ","m","u","s","t"," ","b","e"," ","a"," ","n","o","n","-","e","m","p","t","y"," ","s","t","r","i","n","g">>
M_long == <<"Q","u","e","r","y"," ","t","o","o"," ","l","o","n","g","."," ","M","a","x","i","m","u","m"," ","2","0","0","0"," ","c","h","a","r","a","c","t","e","r","s"," ","a","l","l","o","w","e","d",".">>
M_short == <<"Q","u","e","r","y"," ","t","o","o"," ","s","h","o","r","t","."," ","P","l","e","a","s","e"," ","p","r","o","v","i","d","e"," ","m","o","r","e"," ","d","e","t","a","i","l","s",".">>
M_injection == <<"S","Q","L"," ","i","n","j","e","c","t","i","o","n"," ","a","t","t","e","m","p","t"," ","d","e","t","e","c","t","e","d">>
M_comment == <<"S","Q","L"," ","c","o","m","m","e","n","t"," ","i","n","j","e","c","t","i","o","n"," ","a","t","t","e","m","p","t">>
M_dangerous == <<"D","a","n","g","e","r","o","u","s"," ","S","Q","L"," ","c","o","m","m","a","n","d"," ","d","e","t","e","c","t","e","d">>
M_special == <<"I","n","p","u","t"," ","c","o","n","t","a","i","n","s"," ","t","o","o"," ","m","a","n","y"," ","s","p","e","c","i","a","l"," ","c","h","a","r","a","c","t","e","r","s","."," ","P","l","e","a","s","e"," ","r","e","p","h","r","a","s","e"," ","y","o","u","r"," ","q","u","e","r","y",".">>

\* ;\s*(drop|delete|truncate|alter|create|insert|update)\s+
Pat_statement ==
    << [k |-> "lit", s |-> <<";">>, c |-> "", min |-> 0, opts |-> {}],
       [k |-> "rep", s |-> <<>>, c |-> "s", min |-> 0, opts |-> {}],
       [k |-> "alt", s |-> <<>>, c |-> "", min |-> 0, opts |-> {<<"d","r","o","p">>, <<"d","e","l","e","t","e">>, <<"t","r","u","n","c","a","t","e">>, <<"a","l","t","e","r">>, <<"c","r","e","a","t","e">>, <<"i","n","s","e","r","t">>, <<"u","p","d","a","t","e">>}],
       [k |-> "rep", s |-> <<>>, c |-> "s", min |-> 1, opts |-> {}] >>
\* union\s+select
Pat_union ==
    << [k |-> "lit", s |-> <<"u","n","i","o","n">>, c |-> "", min |-> 0, opts |-> {}],
       [k |-> "rep", s |-> <<>>, c |-> "s", min |-> 1, opts |-> {}],
       [k |-> "lit", s |-> <<"s","e","l","e","c","t">>, c |-> "", min |-> 0, opts |-> {}] >>
\* exec\s*\(
Pat_exec ==
    << [k |-> "lit", s |-> <<"e","x","e","c">>, c |-> "", min |-> 0, opts |-> {}],
       [k |-> "rep", s |-> <<>>, c |-> "s", min |-> 0, opts |-> {}],
       [k |-> "lit", s |-> <<"(">>, c |-> "", min |-> 0, opts |-> {}] >>
\* xp_\w+
Pat_xp ==
    << [k |-> "lit", s |-> <<"x","p","_">>, c |-> "", min |-> 0, opts |-> {}],
       [k |-> "rep", s |-> <<>>, c |-> "w", min |-> 1, opts |-> {}] >>
\* sp_\w+
Pat_sp ==
    << [k |-> "lit", s |-> <<"s","p","_">>, c |-> "", min |-> 0, opts |-> {}],
       [k |-> "rep", s |-> <<>>, c |-> "w", min |-> 1, opts |-> {}] >>
\* --\s*$
Pat_dashes ==
    << [k |-> "lit", s |-> <<"-","-">>, c |-> "", min |-> 0, opts |-> {}],
       [k |-> "rep", s |-> <<>>, c |-> "s", min |-> 0, opts |-> {}],
       [k |-> "end", s |-> <<>>, c |-> "", min |-> 0, opts |-> {}] >>
\* /\*.*\*/
Pat_block ==
    << [k |-> "lit", s |-> <<"/","*">>, c |-> "", min |-> 0, opts |-> {}],
       [k |-> "rep", s |-> <<>>, c |-> ".", min |-> 0, opts |-> {}],
       [k |-> "lit", s |-> <<"*","/">>, c |-> "", min |-> 0, opts |-> {}] >>
\* ;\s*--
Pat_semidash ==
    << [k |-> "lit", s |-> <<";">>, c |-> "", min |-> 0, opts |-> {}],
       [k |-> "rep", s |-> <<>>, c |-> "s", min |-> 0, opts |-> {}],
       [k |-> "lit", s |-> <<"-","-">>, c |-> "", min |-> 0, opts |-> {}] >>
\* waitfor\s+delay
Pat_waitfor ==
    << [k |-> "lit", s |-> <<"w","a","i","t","f","o","r">>, c |-> "", min |-> 0, opts |-> {}],
       [k |-> "rep", s |-> <<>>, c |-> "s", min |-> 1, opts |-> {}],
       [k |-> "lit", s |-> <<"d","e","l","a","y">>, c |-> "", min |-> 0, opts |-> {}] >>
\* shutdown
Pat_shutdown ==
    << [k |-> "lit", s |-> <<"s","h","u","t","d","o","w","n">>, c |-> "", min |-> 0, opts |-> {}] >>

dangerous_patterns ==
    << <<Pat_statement, M_injection>>,
       <<Pat_union, M_injection>>,
       <<Pat_exec, M_injection>>,
       <<Pat_xp, M_injection>>,
       <<Pat_sp, M_injection>>,
       <<Pat_dashes, M_comment>>,
       <<Pat_block, M_comment>>,
       <<Pat_semidash, M_injection>>,
       <<Pat_waitfor, M_injection>>,
       <<Pat_shutdown, M_dangerous>> >>

\* the message of the first pattern found in the text, <<>> when none is
FirstFound(patterns, text) ==
    LET found == {n \in DOMAIN patterns : Search(patterns[n][1], text)}
    IN  IF found = {} THEN <<>>
        ELSE patterns[CHOOSE n \in found : \A m \in found : n <= m][2]

\* the characters counted as special: semicolon, backslash, the two
\* quotes and the backquote
SpecialChars == {";", "\\", "'", "\"", "U+0060"}
CountSpecial(text) == Cardinality({i \in DOMAIN text : text[i] \in SpecialChars})

\* (is_valid, error_message); <<>> stands for None
validate_query_input(user_input) ==
    IF user_input = <<>> THEN <<FALSE, M_empty>>
    ELSE IF Len(user_input) > MaxLength THEN <<FALSE, M_long>>
    ELSE IF Len(Strip(user_input)) < MinLength THEN <<FALSE, M_short>>
    ELSE LET found == CHOOSE m \in { FirstFound(dangerous_patterns, user_input_lower) :
                                        user_input_lower \in {Lower(user_input)} } : TRUE
         IN  IF found # <<>> THEN <<FALSE, found>>
             ELSE IF CountSpecial(user_input) > MaxSpecial THEN <<FALSE, M_special>>
             ELSE <<TRUE, <<>> >>

\* the characters of [\x00-\x08\x0B-\x0C\x0E-\x1F\x7F] that the modelled
\* inputs use
ControlChars == {"U+0000", "U+0007"}

NotControl(c) == c \notin ControlChars

\* null bytes and control characters removed, then str.strip()
sanitize_input(user_input) == Strip(SelectSeq(user_input, NotControl))

\* unidecode.unidecode: ASCII is kept, other characters become their ASCII
\* approximation
UnidecodeChar(c) == IF c = "U+00E9" THEN <<"e">> ELSE <<c>>
RECURSIVE Unidecode(_)
Unidecode(text) ==
    IF text = <<>> THEN <<>> ELSE UnidecodeChar(text[1]) \o Unidecode(Tail(text))

---------------------------------------------------------------------------
(* app.generate_response                                                   *)

MaxResponses == 2

NO_RESPONSE == <<"N","O","_","R","E","S","P","O","N","S","E">>
W_Warn == <<"U+26A0","U+FE0F"," ">>
W_Invalid == <<"U+274C"," ","I","n","p","u","t"," ","v","a","l","i","d","a","t","i","o","n"," ","f","a","i","l","e","d",":"," ">>
W_TimedOutData == <<"U+23F1","U+FE0F"," ","Q","u","e","r","y"," ","e","x","e","c","u","t","i","o","n"," ","t","i","m","e","d"," ","o","u","t"," ","a","f","t","e","r"," ","3","0"," ","s","e","c","o","n","d","s","."," ","P","l","e","a","s","e"," ","t","r","y"," ","a"," ","s","i","m","p","l","e","r"," ","q","u","e","r","y"," ","o","r"," ","b","r","e","a","k"," ","i","t"," ","i","n","t","o"," ","s","m","a","l","l","e","r"," ","p","a","r","t","s",".">>
W_TimedOutCode == <<"U+23F1","U+FE0F"," ","C","o","d","e"," ","g","e","n","e","r","a","t","i","o","n"," ","t","i","m","e","d"," ","o","u","t"," ","a","f","t","e","r"," ","3","0"," ","s","e","c","o","n","d","s","."," ","P","l","e","a","s","e"," ","t","r","y"," ","a"," ","s","i","m","p","l","e","r"," ","v","i","s","u","a","l","i","z","a","t","i","o","n"," ","r","e","q","u","e","s","t",".">>
W_TimedOutQuery == <<"U+23F1","U+FE0F"," ","Q","u","e","r","y"," ","e","x","e","c","u","t","i","o","n"," ","t","i","m","e","d"," ","o","u","t"," ","a","f","t","e","r"," ","3","0"," ","s","e","c","o","n","d","s","."," ","P","l","e","a","s","e"," ","t","r","y"," ","a"," ","s","i","m","p","l","e","r"," ","q","u","e","r","y"," ","o","r"," ","a","d","d"," ","m","o","r","e"," ","s","p","e","c","i","f","i","c"," ","f","i","l","t","e","r","s",".">>
W_Plot == <<"W","r","i","t","e"," ","a"," ","c","o","d","e"," ","i","n"," ","p","y","t","h","o","n"," ","t","o"," ","p","l","o","t"," ","t","h","e"," ","f","o","l","l","o","w","i","n","g"," ","d","a","t","a","\n","\n">>
A_rows == <<"3"," ","r","o","w","s">>
A_vague == <<"P","l","e","a","s","e"," ","p","r","o","v","i","d","e"," ","m","o","r","e"," ","c","o","n","t","e","x","t">>
A_code == <<"f","i","g",".","s","h","o","w","(",")">>

exclusion_keywords ==
    << <<"p","l","e","a","s","e"," ","p","r","o","v","i","d","e">>,
       <<"d","o","n","'","t"," ","k","n","o","w">>,
       <<"m","o","r","e"," ","c","o","n","t","e","x","t">>,
       <<"p","r","o","v","i","d","e"," ","m","o","r","e">>,
       <<"v","a","g","u","e"," ","r","e","q","u","e","s","t">> >>

\* the texts a user types
I_empty == <<>>
I_short == <<" ","a"," ">>
I_ok == <<"t","o","p"," ","b","r","a","n","d","s">>
I_padded == <<" ","c","a","f","U+00E9"," ","U+0000","s","a","l","e","s","\n">>
I_drop == <<"x",";"," ","D","r","o","p"," ","t","a","b","l","e"," ","u","s","e","r","s">>
I_union == <<"a"," ","U","N","I","O","N"," "," ","s","e","l","e","c","t"," ","b">>
I_comment == <<"u","s","e","r","s"," ","-","-">>
I_quotes == <<"'","'","'","'","'","'","'","'","'","'","'">>
I_long == [i \in 1..(MaxLength + 1) |-> "a"]
I_split == <<"s","h","u","t","U+0007","d","o","w","n">>
ResponseInputs == {I_empty, I_short, I_ok, I_padded, I_drop, I_union, I_comment, I_quotes, I_long, I_split}

\* what an agent does with a call: it answers, answers by asking back,
\* raises, answers after the timeout, or never answers
SqlOutcomes == {"answers", "asks_back", "raises", "slow", "never"}
PythonOutcomes == {"answers", "raises", "slow", "never"}

\* the caller never gets control back (run_with_timeout waits for the agent)
Blocked == [out |-> "blocked", val |-> <<>>, exc |-> ""]

Responded(L, rate, invoked, r) ==
    [limiter |-> L, rate |-> rate, invoked |-> invoked, r |-> r]

\* any(keyword in local_response.lower() for keyword in exclusion_keywords)
Excluded(local_response) ==
    \E i \in DOMAIN exclusion_keywords :
        Contains(Lower(local_response), exclusion_keywords[i])

\* the branch code_type == "python": the SQL agent, then the Python agent
PythonPath(L, local_prompt, sql_outcome, python_outcome) ==
    LET first == <<"sql_agent.invoke", [input |-> local_prompt]>>
        local_response == IF sql_outcome = "asks_back" THEN A_vague ELSE A_rows
        second == <<"python_agent.invoke", [input |-> W_Plot \o local_response]>>
    IN  CASE sql_outcome = "never"  -> Responded(L, "allowed", <<first>>, Blocked)
          [] sql_outcome = "slow"   -> Responded(L, "allowed", <<first>>,
                                                 Value(W_TimedOutData))
          [] sql_outcome = "raises" -> Responded(L, "allowed", <<first>>,
                                                 Value(NO_RESPONSE))
          [] OTHER ->
               IF Excluded(local_response)
               THEN Responded(L, "allowed", <<first>>, Value(NO_RESPONSE))
               ELSE Responded(L, "allowed", <<first, second>>,
                      CASE python_outcome = "never"  -> Blocked
                        [] python_outcome = "slow"   -> Value(W_TimedOutCode)
                        [] python_outcome = "raises" -> Raise("Exception")
                        [] OTHER -> Value([output |-> A_code]))

\* the SQL query path
SqlPath(L, local_prompt, sql_outcome) ==
    Responded(L, "allowed", << <<"sql_agent.run", local_prompt>> >>,
        CASE sql_outcome = "never"     -> Blocked
          [] sql_outcome = "slow"      -> Value(W_TimedOutQuery)
          [] sql_outcome = "raises"    -> Raise("Exception")
          [] sql_outcome = "asks_back" -> Value(A_vague)
          [] OTHER -> Value(A_rows))

\* validate_query_input on every input of the model, computed once
Validated == [input_text \in ResponseInputs |-> validate_query_input(input_text)]

\* a deliberately wrong variant: the input is validated before the rate
\* limit is checked
RespondValidatingFirst(S, L, user_key, code_type, input_text, current_time, sql_outcome, python_outcome) ==
    IF ~S.sql_agent \/ ~S.python_agent
    THEN Responded(L, "skipped", <<>>, Value(NO_RESPONSE))
    ELSE LET validated == validate_query_input(input_text)
             checked == check_rate_limit(L, user_key, L.max_requests, TimeWindow,
                                         current_time)
             local_prompt == Unidecode(sanitize_input(input_text))
         IN  IF ~validated[1]
             THEN Responded(L, "skipped", <<>>, Value(W_Invalid \o validated[2]))
             ELSE IF checked.r.out = "raise"
             THEN Responded(checked.limiter, "raised", <<>>, checked.r)
             ELSE IF ~checked.r.val[1]
             THEN Responded(checked.limiter, "denied", <<>>,
                            Value(W_Warn \o checked.r.val[2]))
             ELSE IF code_type = "python"
             THEN PythonPath(checked.limiter, local_prompt, sql_outcome,
                             python_outcome)
             ELSE SqlPath(checked.limiter, local_prompt, sql_outcome)

\* generate_response(code_type, input_text) with trace=None, for the
\* session S and the rate limiter L at current_time.  The limit of the
\* call is the limiter's max_requests.
generate_response(S, L, user_key, code_type, input_text, current_time, sql_outcome, python_outcome) ==
    IF ~S.sql_agent \/ ~S.python_agent
    THEN Responded(L, "skipped", <<>>, Value(NO_RESPONSE))
    ELSE LET checked == check_rate_limit(L, user_key, L.max_requests, TimeWindow,
                                         current_time)
             validated == Validated[input_text]
             local_prompt == Unidecode(sanitize_input(input_text))
         IN  IF checked.r.out = "raise"
             THEN Responded(checked.limiter, "raised", <<>>, checked.r)
             ELSE IF ~checked.r.val[1]
             THEN Responded(checked.limiter, "denied", <<>>,
                            Value(W_Warn \o checked.r.val[2]))
             ELSE IF ~validated[1]
             THEN Responded(checked.limiter, "allowed", <<>>,
                            Value(W_Invalid \o validated[2]))
             ELSE IF code_type = "python"
             THEN PythonPath(checked.limiter, local_prompt, sql_outcome,
                             python_outcome)
             ELSE SqlPath(checked.limiter, local_prompt, sql_outcome)

\* the key _get_user_key returns for the session
SessionKey == "a"

GenerateResponse ==
    /\ session.calls < MaxResponses
    /\ ~session.blocked
    /\ \E code_type \in {"sql", "python"}, input_text \in ResponseInputs,
          sql_outcome \in SqlOutcomes :
        \E python_outcome \in IF code_type = "python" THEN PythonOutcomes
                                                       ELSE {"unused"} :
         \E done \in {generate_response(session, limiter, SessionKey, code_type,
                                        input_text, limiter.clock, sql_outcome,
                                        python_outcome)} :
            /\ limiter' = [done.limiter EXCEPT
                              !.calls = IF done.rate = "skipped" THEN @ ELSE @ + 1,
                              !.allowed = IF done.rate = "allowed"
                                          THEN Append(@, <<SessionKey, limiter.clock>>)
                                          ELSE @]
            /\ session' = [session EXCEPT !.calls = @ + 1,
                                          !.invoked = done.invoked,
                                          !.blocked = (done.r = Blocked)]
            /\ Returned("generate_response",
                        <<code_type, input_text, limiter.clock>>, done.r)
            /\ UNCHANGED <<graphs, singleton, visitors, pool, writers, twin>>

InitResponse ==
    /\ InitGraphs({ChainDatabase}, {AbsentFile})
    /\ singleton = SingletonInit({})
    /\ limiter \in {LimiterInit(m) : m \in 1..MaxRequests}
    /\ visitors = VisitorsInit
    /\ pool = PoolInit
    /\ writers = WritersInit({})
    /\ session \in {SessionInit(s, p) : s, p \in BOOLEAN}
    /\ twin = EmptyGraph

NextResponse == GenerateResponse \/ Tick
SpecResponse == InitResponse /\ [][NextResponse]_vars

\* the time stamps of the key within the window that ends at time at
RecentStamps(L, key, at) ==
    LET stamps == Stamps(L.requests, key)
    IN  {i \in DOMAIN stamps : stamps[i] > at - TimeWindow}

CountOf(stamps, at) == Cardinality({i \in DOMAIN stamps : stamps[i] = at})

\* no control character and no blank at either end
IsSanitized(text) ==
    /\ \A i \in DOMAIN text : text[i] \notin ControlChars
    /\ text = Strip(text)

\* C30: generate_response checks the agents first, then the rate limit,
\* then the input: without agents nothing is counted against the rate
\* limit; a rate-limited request gets the rate-limit message also when its
\* input is invalid; a request within the limit is counted, and with an
\* invalid input gets the validation message; in none of these cases is
\* an agent invoked, and the prompt an agent is invoked with is the
\* sanitized input.
C30_ChecksBeforeAgents ==
    [][ session'.calls # session.calls =>
          LET input_text == ret'.args[2]
              at == ret'.args[3]
              ready == session.sql_agent /\ session.python_agent
              limited == Cardinality(RecentStamps(limiter, SessionKey, at))
                            >= limiter.max_requests
              valid == Validated[input_text][1]
              counted == CountOf(Stamps(limiter'.requests, SessionKey), at)
                            = CountOf(Stamps(limiter.requests, SessionKey), at) + 1
          IN  /\ ~ready =>
                    /\ ret'.val = NO_RESPONSE
                    /\ session'.invoked = <<>>
                    /\ limiter' = limiter
              /\ (ready /\ limited) =>
                    /\ ret'.out = "value"
                    /\ StartsWith(ret'.val, W_Warn \o W_Exceeded)
                    /\ session'.invoked = <<>>
                    /\ ~counted
              /\ (ready /\ ~limited) => counted
              /\ (ready /\ ~limited /\ ~valid) =>
                    /\ ret'.out = "value"
                    /\ StartsWith(ret'.val, W_Invalid)
                    /\ session'.invoked = <<>>
              /\ session'.invoked # <<>> =>
                    LET prompt == IF session'.invoked[1][1] = "sql_agent.run"
                                  THEN session'.invoked[1][2]
                                  ELSE session'.invoked[1][2].input
                    IN  /\ ready /\ ~limited /\ valid
                        /\ prompt = Unidecode(sanitize_input(input_text))
                        /\ IsSanitized(sanitize_input(input_text))
                        /\ \A i \in 2..Len(session'.invoked) :
                              session'.invoked[i][2].input = W_Plot \o A_rows ]_vars

\* a request with an injection attempt arrives when the session is over
\* its limit: it is answered with the rate-limit message
C30_Witness ==
    /\ ret.op = "generate_response"
    /\ ret.args[2] = I_drop
    /\ session.calls > 1
    /\ session.invoked = <<>>
    /\ StartsWith(ret.val, W_Warn)

====
